---------------------------- MODULE Spec2Model ----------------------------
(***************************************************************************)
(* A model of canvas-mcp: the Canvas API client (src/canvas_api.py) and    *)
(* the tool facade over it (src/server.py).                                *)
(*                                                                         *)
(* One facade call runs at a time.  Every outbound GET is one step of the  *)
(* model: the call that issues it leaves the request in `inflight`, and    *)
(* the step that receives its outcome runs the client code up to the next  *)
(* request or to the return of the facade operation.                       *)
(*                                                                         *)
(* Python values: text is a TLA+ string handled character by character     *)
(* (Len, SubSeq, \o); an optional value is a sequence of length 0 (None)   *)
(* or 1; a JSON object is a record holding the fields the code reads.      *)
(***************************************************************************)
EXTENDS Integers, Sequences, FiniteSets, TLC

(***************************************************************************)
(* Bounds of the model.                                                    *)
(***************************************************************************)
MaxCourses == 2
MaxItems == 2

(***************************************************************************)
(* Text.                                                                   *)
(***************************************************************************)
\* The printable ASCII characters the model's texts use, in code-point order.
Ascii == " +-.0123456789:ABCDEFGHIJKLMNOPQRSTUVWXYZ_abcdefghijklmnopqrstuvwxyz"

UpperLetters == "ABCDEFGHIJKLMNOPQRSTUVWXYZ"

LowerLetters == "abcdefghijklmnopqrstuvwxyz"

Digits == "0123456789"

CharAt(s, i) == SubSeq(s, i, i)

\* Position of character c in alphabet, 0 when absent.
IndexIn(c, alphabet) ==
    IF \E i \in 1..Len(alphabet) : CharAt(alphabet, i) = c
    THEN CHOOSE i \in 1..Len(alphabet) : CharAt(alphabet, i) = c
    ELSE 0

\* Code-point rank of a character (str comparison compares code points).
Ord(c) == IndexIn(c, Ascii)

\* str.lower() on one character.
LowerChar(c) ==
    IF IndexIn(c, UpperLetters) > 0
    THEN CharAt(LowerLetters, IndexIn(c, UpperLetters))
    ELSE c

RECURSIVE Lower(_)
\* str.lower()
Lower(s) ==
    IF s = "" THEN ""
    ELSE IF Len(s) = 1 THEN LowerChar(s)
    ELSE Lower(SubSeq(s, 1, Len(s) \div 2)) \o Lower(SubSeq(s, Len(s) \div 2 + 1, Len(s)))

\* `p in s` for str
Contains(s, p) == \E i \in 1..(Len(s) - Len(p) + 1) : SubSeq(s, i, i + Len(p) - 1) = p

\* s[:n] for n >= 0
Prefix(s, n) == SubSeq(s, 1, IF n < Len(s) THEN n ELSE Len(s))

RECURSIVE StrLess(_, _)
\* a < b for str: lexicographic by code point, a proper prefix sorts first.
StrLess(a, b) ==
    IF b = "" THEN FALSE
    ELSE IF a = "" THEN TRUE
    ELSE IF CharAt(a, 1) # CharAt(b, 1) THEN Ord(CharAt(a, 1)) < Ord(CharAt(b, 1))
    ELSE StrLess(SubSeq(a, 2, Len(a)), SubSeq(b, 2, Len(b)))

StrLeq(a, b) == a = b \/ StrLess(a, b)

RECURSIVE IntToStr(_)
\* str(n) for n >= 0, as an f-string renders an int
IntToStr(n) ==
    IF n < 10 THEN CharAt(Digits, n + 1)
    ELSE IntToStr(n \div 10) \o CharAt(Digits, (n % 10) + 1)

IsDigits(s) == s # "" /\ \A i \in 1..Len(s) : IndexIn(CharAt(s, i), Digits) > 0

RECURSIVE DigitsToInt(_)
DigitsToInt(s) ==
    IF s = "" THEN 0
    ELSE 10 * DigitsToInt(SubSeq(s, 1, Len(s) - 1)) + (IndexIn(CharAt(s, Len(s)), Digits) - 1)

RECURSIVE Rep(_, _)
\* s * n
Rep(s, n) ==
    IF n = 0 THEN ""
    ELSE IF n = 1 THEN s
    ELSE Rep(s, n \div 2) \o Rep(s, n - n \div 2)

(***************************************************************************)
(* JSON values as the client reads them.  A field that may be absent, null *)
(* a string or a number is a record [t, s] (s is the text or the numeral); *)
(* dict.get(k) turns an absent field into None, dict.get(k, d) into d.     *)
(***************************************************************************)
Missing == [t |-> "missing", s |-> ""]

Null == [t |-> "null", s |-> ""]

Str(s) == [t |-> "str", s |-> s]

\* dict.get(k)
Get(v) == IF v.t = "missing" THEN Null ELSE v

\* dict.get(k, default)
GetOr(v, default) == IF v.t = "missing" THEN default ELSE v

\* Python truthiness of None, a str or a number
Truthy(v) == (v.t = "str" /\ v.s # "") \/ (v.t = "num" /\ v.s # "0")

\* `v or ''`
OrEmpty(v) == IF Truthy(v) THEN v.s ELSE ""

(***************************************************************************)
(* The request primitive, CanvasAPI._make_request.                         *)
(*                                                                         *)
(* A transport outcome is what requests.get produced: a response with a    *)
(* status and a body text, or one of the requests exceptions (text is then *)
(* str(e)).  The body of a 200 response is the parsed JSON payload, which  *)
(* the receiving step draws from the payloads of the endpoint.             *)
(***************************************************************************)
Response(status, text) == [kind |-> "response", status |-> status, text |-> text]

TransportError(kind, text) == [kind |-> kind, status |-> 0, text |-> text]

MsgAuth == "Authentication failed. Please check your CANVAS_TOKEN."

MsgForbidden == "Access forbidden. You may not have permission to access this resource."

MsgNotFound == "Resource not found. Please check the course ID or endpoint."

MsgRateLimit == "Rate limit exceeded. Please wait a moment and try again."

MsgTimeout == "Request timed out. Please check your network connection."

MsgConnection == "Connection error. Please check your network connection."

\* response.text[:200]
BodyLimit == 200

MsgGeneric(status, text) ==
    "API request failed with status " \o IntToStr(status) \o ": " \o Prefix(text, BodyLimit)

MsgRequestFailed(text) == "Request failed: " \o text

\* The outcome of _make_request: ok (the parsed body is returned) or a
\* CanvasAPIError carrying msg.
Returned == [ok |-> TRUE, msg |-> ""]

CanvasAPIError(msg) == [ok |-> FALSE, msg |-> msg]

_make_request_swapped(tr) ==
    IF tr.kind = "response" THEN
        IF tr.status = 200 THEN Returned
        ELSE IF tr.status = 401 THEN CanvasAPIError(MsgAuth)
        ELSE IF tr.status = 403 THEN CanvasAPIError(MsgNotFound)
        ELSE IF tr.status = 404 THEN CanvasAPIError(MsgForbidden)
        ELSE IF tr.status = 429 THEN CanvasAPIError(MsgRateLimit)
        ELSE CanvasAPIError(MsgGeneric(tr.status, tr.text))
    ELSE IF tr.kind = "Timeout" THEN CanvasAPIError(MsgTimeout)
    ELSE IF tr.kind = "ConnectionError" THEN CanvasAPIError(MsgConnection)
    ELSE CanvasAPIError(MsgRequestFailed(tr.text))

_make_request(tr) ==
    IF tr.kind = "response" THEN
        IF tr.status = 200 THEN Returned
        ELSE IF tr.status = 401 THEN CanvasAPIError(MsgAuth)
        ELSE IF tr.status = 403 THEN CanvasAPIError(MsgForbidden)
        ELSE IF tr.status = 404 THEN CanvasAPIError(MsgNotFound)
        ELSE IF tr.status = 429 THEN CanvasAPIError(MsgRateLimit)
        ELSE CanvasAPIError(MsgGeneric(tr.status, tr.text))
    ELSE IF tr.kind = "Timeout" THEN CanvasAPIError(MsgTimeout)
    ELSE IF tr.kind = "ConnectionError" THEN CanvasAPIError(MsgConnection)
    ELSE CanvasAPIError(MsgRequestFailed(tr.text))

\* `'forbidden' in err.lower() or '403' in err`
\* The 403 test without its 'forbidden' half.
LooksForbidden_code(err) == Contains(err, "403")

LooksForbidden(err) == Contains(Lower(err), "forbidden") \/ Contains(err, "403")

\* `'not found' in err.lower() or '404' in err`
\* The 404 test without its 'not found' half.
LooksNotFound_code(err) == Contains(err, "404")

LooksNotFound(err) == Contains(Lower(err), "not found") \/ Contains(err, "404")

(***************************************************************************)
(* The upstream outcomes the model draws from.                             *)
(***************************************************************************)
\* A body longer than the 200 characters the generic message keeps.
LongBody == Rep("x", BodyLimit) \o " 404"

ErrorBodies == {"", "Course Not Found", LongBody}

FixedStatuses == {401, 403, 404, 429}

OtherStatuses == {500}

Failures ==
    {Response(st, "") : st \in FixedStatuses}
    \cup {Response(st, b) : st \in OtherStatuses, b \in ErrorBodies}
    \cup {TransportError("Timeout", "timed out"),
          TransportError("ConnectionError", "connection refused"),
          TransportError("RequestException", "Exceeded 30 redirects.")}

Ok == Response(200, "")

(***************************************************************************)
(* datetime.fromisoformat and the comparison with the current instant.     *)
(*                                                                         *)
(* The model parses the two layouts every supported Python accepts,        *)
(* YYYY-MM-DDTHH:MM:SS and the same followed by +HH:MM or -HH:MM; any      *)
(* other text is a ValueError.  A parsed value is aware (it has an offset) *)
(* or naive.  An instant is <<days since 1970-01-01, second of the day>>   *)
(* in UTC.                                                                 *)
(***************************************************************************)
RECURSIVE ReplaceZ(_)
\* due_at.replace('Z', '+00:00')
ReplaceZ(s) ==
    IF s = "" THEN ""
    ELSE IF Len(s) = 1 THEN (IF s = "Z" THEN "+00:00" ELSE s)
    ELSE ReplaceZ(SubSeq(s, 1, Len(s) \div 2)) \o ReplaceZ(SubSeq(s, Len(s) \div 2 + 1, Len(s)))

Num(s, i, j) == DigitsToInt(SubSeq(s, i, j))

IsLeap(y) == (y % 4 = 0 /\ y % 100 # 0) \/ y % 400 = 0

DaysInMonth(y, m) ==
    IF m = 2 THEN (IF IsLeap(y) THEN 29 ELSE 28)
    ELSE IF m \in {4, 6, 9, 11} THEN 30 ELSE 31

\* Days from 1970-01-01 to the civil date y-m-d (proleptic Gregorian).
DaysFromCivil(y, m, d) ==
    LET yy == IF m <= 2 THEN y - 1 ELSE y
        era == yy \div 400
        yoe == yy - era * 400
        mp == IF m > 2 THEN m - 3 ELSE m + 9
        doy == (153 * mp + 2) \div 5 + d - 1
        doe == yoe * 365 + yoe \div 4 - yoe \div 100 + doy
    IN era * 146097 + doe - 719468

WellFormedDateTime(s) ==
    /\ Len(s) >= 19
    /\ IsDigits(SubSeq(s, 1, 4)) /\ CharAt(s, 5) = "-"
    /\ IsDigits(SubSeq(s, 6, 7)) /\ CharAt(s, 8) = "-"
    /\ IsDigits(SubSeq(s, 9, 10)) /\ CharAt(s, 11) = "T"
    /\ IsDigits(SubSeq(s, 12, 13)) /\ CharAt(s, 14) = ":"
    /\ IsDigits(SubSeq(s, 15, 16)) /\ CharAt(s, 17) = ":"
    /\ IsDigits(SubSeq(s, 18, 19))
    /\ Num(s, 1, 4) >= 1 /\ Num(s, 6, 7) \in 1..12
    /\ Num(s, 9, 10) \in 1..DaysInMonth(Num(s, 1, 4), Num(s, 6, 7))
    /\ Num(s, 12, 13) < 24 /\ Num(s, 15, 16) < 60 /\ Num(s, 18, 19) < 60

WellFormedOffset(s) ==
    /\ Len(s) = 25
    /\ CharAt(s, 20) \in {"+", "-"}
    /\ IsDigits(SubSeq(s, 21, 22)) /\ CharAt(s, 23) = ":" /\ IsDigits(SubSeq(s, 24, 25))
    /\ Num(s, 21, 22) < 24 /\ Num(s, 24, 25) < 60

\* The instant of a well-formed text whose UTC offset is off seconds.
InstantOf(s, off) ==
    LET days == DaysFromCivil(Num(s, 1, 4), Num(s, 6, 7), Num(s, 9, 10))
        secs == Num(s, 12, 13) * 3600 + Num(s, 15, 16) * 60 + Num(s, 18, 19) - off
    IN <<days + (secs \div 86400), secs % 86400>>

OffsetSeconds(s) ==
    (IF CharAt(s, 20) = "-" THEN -1 ELSE 1) * (Num(s, 21, 22) * 3600 + Num(s, 24, 25) * 60)

\* datetime.fromisoformat(s): kind is "aware", "naive" or "ValueError".
fromisoformat(s) ==
    IF WellFormedDateTime(s) /\ Len(s) = 19
    THEN [kind |-> "naive", instant |-> InstantOf(s, 0)]
    ELSE IF WellFormedDateTime(s) /\ WellFormedOffset(s)
    THEN [kind |-> "aware", instant |-> InstantOf(s, OffsetSeconds(s))]
    ELSE [kind |-> "ValueError", instant |-> <<0, 0>>]

\* a > b for two aware datetimes
After(a, b) == a[1] > b[1] \/ (a[1] = b[1] /\ a[2] > b[2])

\* datetime.now(timezone.utc): the instants the model's clock may show.
NowTexts == {"2026-11-01T12:00:00+00:00", "2026-11-02T07:30:00+00:00"}

Nows == {fromisoformat(t).instant : t \in NowTexts}

(***************************************************************************)
(* Outcomes of a client method and of a facade operation.                  *)
(***************************************************************************)
Return(v) == [kind |-> "return", value |-> v, exc |-> "", msg |-> ""]

Raise(exc, msg) == [kind |-> "raise", value |-> <<>>, exc |-> exc, msg |-> msg]

NoOutcome == [kind |-> "none", value |-> <<>>, exc |-> "", msg |-> ""]

(***************************************************************************)
(* The facade, src/server.py: each tool calls one client method and turns  *)
(* a CanvasAPIError into an error value; any other exception propagates.   *)
(***************************************************************************)
ListTools == {"list_courses", "get_assignments", "get_upcoming_deadlines", "get_course_pages",
              "get_all_grades", "get_calendar_events", "get_all_calendar_events",
              "get_announcements", "get_course_discussions", "get_discussion_entries"}

DictTools == {"get_course_details", "get_course_files", "get_course_modules",
              "get_course_home_page", "get_course_syllabus", "get_course_grades",
              "get_assignment_submission"}

Tools == ListTools \cup DictTools

\* The client methods no tool calls; the model calls them directly.
ClientOnly == {"get_all_assignment_grades"}

\* The value of the `except CanvasAPIError as e` branch of a tool.
ErrorValue(tool, msg) ==
    IF tool = "get_course_files" THEN [error |-> msg, files |-> <<>>, count |-> 0]
    ELSE IF tool = "get_course_modules" THEN [error |-> msg, modules |-> <<>>, count |-> 0]
    ELSE IF tool \in DictTools THEN [error |-> msg]
    ELSE <<[error |-> msg]>>

\* A tool without its except branch: whatever the client method raises
\* goes on to the caller.
ToolOutcome_uncaught(tool, outcome) == outcome

\* What a tool hands to its caller, given the outcome of its client method.
ToolOutcome(tool, outcome) ==
    IF outcome.kind = "raise" /\ outcome.exc = "CanvasAPIError"
    THEN Return(ErrorValue(tool, outcome.msg))
    ELSE outcome

(***************************************************************************)
(* State.                                                                  *)
(***************************************************************************)
VARIABLES
    env,        \* CANVAS_BASE_URL and CANVAS_TOKEN as the process finds them
    canvas,     \* the client object: exists, base_url, token, headers
    pc,         \* "boot", "exited", "idle", "waiting" (a GET is outstanding), "done"
    call,       \* the operation being run and its arguments
    now,        \* the value of datetime.now(timezone.utc) the operation read
    inflight,   \* the outstanding request, a sequence of length 0 or 1
    courses,    \* the result of get_courses inside a fan-out operation
    idx,        \* the position of the fan-out loop in courses
    acc,        \* the list a fan-out operation accumulates
    held,       \* the course object get_course holds while it fetches the tabs
    log,        \* the requests of the current operation with their outcomes
    client,     \* the outcome of the client method
    result,     \* the outcome of the tool, as its caller sees it
    first       \* history: the call the caller repeats, with its time, its
                \* requests and answers and its result; <<>> when none is kept

vars ==
    <<env, canvas, pc, call, now, inflight, courses, idx, acc, held, log, client, result, first>>

(***************************************************************************)
(* Startup: server.py constructs the client from the environment.          *)
(***************************************************************************)
EnvUrls == {"", "/", "https://canvas.test/"}

EnvTokens == {"", "tok"}

RECURSIVE RStrip(_)
\* base_url.rstrip('/')
RStrip(s) ==
    IF s # "" /\ CharAt(s, Len(s)) = "/" THEN RStrip(SubSeq(s, 1, Len(s) - 1)) ELSE s

NoClient == [exists |-> FALSE, base_url |-> "", token |-> "", authorization |-> "",
             content_type |-> ""]

\* CanvasAPI.__init__ past its two checks.
NewClient(base_url, token) ==
    [exists |-> TRUE, base_url |-> RStrip(base_url), token |-> token,
     authorization |-> "Bearer " \o token, content_type |-> "application/json"]

NoCall == [op |-> "", tool |-> "", course_id |-> 0, has_course |-> FALSE, other_id |-> 0,
           limit |-> 0, days |-> 0, start_date |-> <<>>, end_date |-> <<>>]

Init ==
    /\ env \in [base_url : EnvUrls, token : EnvTokens]
    /\ canvas = NoClient
    /\ pc = "boot"
    /\ call = NoCall
    /\ now = <<0, 0>>
    /\ inflight = <<>>
    /\ courses = <<>>
    /\ idx = 0
    /\ acc = <<>>
    /\ held = <<>>
    /\ log = <<>>
    /\ client = NoOutcome
    /\ result = NoOutcome
    /\ first = <<>>

\* server.py lines 24-33: a ValueError of the constructor ends the process.
Startup ==
    /\ pc = "boot"
    /\ IF env.base_url = "" \/ env.token = ""
       THEN /\ pc' = "exited"
            /\ canvas' = canvas
       ELSE /\ pc' = "idle"
            /\ canvas' = NewClient(env.base_url, env.token)
    /\ UNCHANGED <<env, call, now, inflight, courses, idx, acc, held, log, client, result,
                    first>>

(***************************************************************************)
(* Requests.                                                               *)
(***************************************************************************)
NoParams == [per_page |-> <<>>, context_codes |-> <<>>, start_date |-> "", end_date |-> ""]

\* requests.get(url, headers=self.headers, params=params, timeout=30)
Request(what, endpoint, params) ==
    [what |-> what, method |-> "GET", url |-> canvas.base_url \o endpoint,
     authorization |-> canvas.authorization, params |-> params]

CoursePath(course_id, rest) == "/courses/" \o IntToStr(course_id) \o rest

\* The call is the repetition of an earlier one and upstream, unchanged
\* since, has an answer of that call left for the outstanding request.
Replaying == first # <<>> /\ Len(log) < Len(first[1].log)

\* What requests.get can produce for the outstanding request: a URL without
\* a scheme is rejected before anything is sent (MissingSchema, a
\* RequestException whose text quotes the URL); a repeated call gets the
\* answers of the call it repeats.
Outcomes ==
    IF Replaying THEN {first[1].log[Len(log) + 1].tr}
    ELSE IF canvas.base_url = ""
    THEN {TransportError("RequestException",
                         "Invalid URL '" \o inflight[1].url \o "': No scheme supplied.")}
    ELSE Failures \cup {Ok}

\* Issue without waiting for the request before it: the new request joins
\* the ones still outstanding.
Issue_pipelined(req) ==
    /\ inflight' = inflight \o <<req>>
    /\ pc' = "waiting"
    /\ UNCHANGED <<client, result, first>>

\* The operation goes on with another request.
Issue(req) ==
    /\ inflight' = <<req>>
    /\ pc' = "waiting"
    /\ UNCHANGED <<client, result, first>>

\* The client method ends with outcome; the tool hands its caller the result.
FinishCall(c, outcome) ==
    /\ inflight' = <<>>
    /\ pc' = "done"
    /\ client' = outcome
    /\ result' = IF c.tool = "" THEN outcome ELSE ToolOutcome(c.tool, outcome)
    /\ UNCHANGED first

Finish(outcome) == FinishCall(call, outcome)

\* The log entry of a request: what was asked, what requests.get produced,
\* what _make_request made of it, and the parsed body of a 200 response.
Logged(tr, body) ==
    Append(log, [req |-> inflight[1], tr |-> tr, outcome |-> _make_request(tr), body |-> body])

Awaiting(what) == pc = "waiting" /\ inflight # <<>> /\ inflight[1].what = what

(***************************************************************************)
(* Sorting: list.sort(key=...) is a stable sort by the key.                *)
(***************************************************************************)
\* The sort keys with the graded flag left out of the submissions' key.
KeyLess_due_only(by, x, y) ==
    IF by = "due_at" THEN StrLess(x.due_at, y.due_at)
    ELSE IF by = "graded_due_at" THEN StrLess(OrEmpty(x.due_at), OrEmpty(y.due_at))
    ELSE IF by = "start_at" THEN StrLess(OrEmpty(x.start_at), OrEmpty(y.start_at))
    ELSE StrLess(OrEmpty(y.posted_at), OrEmpty(x.posted_at))

\* The sort keys with the announcements sorted without reverse=True.
KeyLess_posted_ascending(by, x, y) ==
    IF by = "due_at" THEN StrLess(x.due_at, y.due_at)
    ELSE IF by = "graded_due_at"
    THEN \/ x.workflow_state = Str("graded") /\ y.workflow_state # Str("graded")
         \/ /\ (x.workflow_state = Str("graded")) = (y.workflow_state = Str("graded"))
            /\ StrLess(OrEmpty(x.due_at), OrEmpty(y.due_at))
    ELSE IF by = "start_at" THEN StrLess(OrEmpty(x.start_at), OrEmpty(y.start_at))
    ELSE StrLess(OrEmpty(x.posted_at), OrEmpty(y.posted_at))

\* The order of two elements under the key of the sort named by.
KeyLess(by, x, y) ==
    \* all_assignments.sort(key=lambda x: x['due_at'])
    IF by = "due_at" THEN StrLess(x.due_at, y.due_at)
    \* formatted.sort(key=lambda x: (x.get('workflow_state') != 'graded', x.get('due_at') or ''))
    ELSE IF by = "graded_due_at"
    THEN \/ x.workflow_state = Str("graded") /\ y.workflow_state # Str("graded")
         \/ /\ (x.workflow_state = Str("graded")) = (y.workflow_state = Str("graded"))
            /\ StrLess(OrEmpty(x.due_at), OrEmpty(y.due_at))
    \* formatted.sort(key=lambda x: x.get('start_at') or '')
    ELSE IF by = "start_at" THEN StrLess(OrEmpty(x.start_at), OrEmpty(y.start_at))
    \* formatted.sort(key=lambda x: x.get('posted_at') or '', reverse=True)
    ELSE StrLess(OrEmpty(y.posted_at), OrEmpty(x.posted_at))

RECURSIVE InsertSorted(_, _, _)
\* x placed behind every element that is not greater than it
InsertSorted(sorted, x, by) ==
    IF sorted = <<>> THEN <<x>>
    ELSE IF KeyLess(by, x, Head(sorted)) THEN <<x>> \o sorted
    ELSE <<Head(sorted)>> \o InsertSorted(Tail(sorted), x, by)

RECURSIVE StableSort(_, _)
StableSort(list, by) ==
    IF list = <<>> THEN <<>>
    ELSE InsertSorted(StableSort(SubSeq(list, 1, Len(list) - 1), by), list[Len(list)], by)

(***************************************************************************)
(* Upstream payloads: courses, assignments, enrollments.  Fields the       *)
(* client only copies with dict.get and never inspects are left out,       *)
(* apart from the ones named here.                                         *)
(***************************************************************************)
CourseIds == 1..MaxCourses

CourseJson(id) ==
    [id |-> id, name |-> "Course " \o IntToStr(id), course_code |-> "C" \o IntToStr(id),
     default_view |-> Str("modules")]

\* The active courses upstream may list: no id twice.
CourseLists ==
    UNION {{[i \in 1..n |-> CourseJson(ids[i])] :
               ids \in {f \in [1..n -> CourseIds] : \A i, j \in 1..n : f[i] = f[j] => i = j}} :
           n \in 0..MaxCourses}

\* The due_at values of an upstream assignment: absent, null, a number, and
\* texts that are empty, malformed, aware (Z or an offset) and naive.
DueValues ==
    {Missing, Null, [t |-> "num", s |-> "5"], Str(""), Str("tomorrow"),
     Str("2026-11-01T12:00:00Z"), Str("2026-11-02T09:00:00+02:00"),
     Str("2026-11-02T08:00:00Z"), Str("2026-11-03T00:00:00")}

MaxAssignments == 2

AssignmentJson(course_id, i, due) ==
    [id |-> 10 * course_id + i, name |-> "HW" \o IntToStr(i), due_at |-> due,
     points_possible |-> 10, html_url |-> "u" \o IntToStr(i)]

AssignmentLists(course_id) ==
    UNION {{[i \in 1..n |-> AssignmentJson(course_id, i, due[i])] : due \in [1..n -> DueValues]} :
           n \in 0..MaxAssignments}

\* The `grades` object of an enrollment: absent or present.
GradesValues == {[t |-> "missing", current_score |-> 0], [t |-> "dict", current_score |-> 90]}

EnrollmentJson(g) == [type |-> "StudentEnrollment", grades |-> g]

EnrollmentLists ==
    UNION {{[i \in 1..n |-> EnrollmentJson(g[i])] : g \in [1..n -> GradesValues]} :
           n \in 0..MaxItems}

(***************************************************************************)
(* get_courses, get_assignments                                            *)
(***************************************************************************)
FormatCourse(c) ==
    [id |-> c.id, name |-> c.name, course_code |-> c.course_code,
     default_view |-> Get(c.default_view)]

FormatCourses(body) == [i \in 1..Len(body) |-> FormatCourse(body[i])]

FormatAssignment(a) ==
    [id |-> a.id, name |-> a.name, due_at |-> Get(a.due_at),
     points_possible |-> a.points_possible, html_url |-> a.html_url]

FormatAssignments(body) == [i \in 1..Len(body) |-> FormatAssignment(body[i])]

(***************************************************************************)
(* get_upcoming_assignments                                                *)
(***************************************************************************)
UpcomingRecord(course, a) ==
    [course_id |-> course.id, course_name |-> course.name, course_code |-> course.course_code,
     assignment_id |-> a.id, assignment_name |-> a.name, due_at |-> a.due_at.s,
     points_possible |-> a.points_possible, html_url |-> a.html_url]

\* The inner loop's body with an except clause that lets the ValueError of
\* fromisoformat through.
UpcomingVerdict_uncaught(a, current) ==
    IF ~Truthy(a.due_at) THEN "drop"
    ELSE IF a.due_at.t # "str" THEN "drop"
    ELSE LET due_date == fromisoformat(ReplaceZ(a.due_at.s))
         IN IF due_date.kind \in {"ValueError", "naive"} THEN "TypeError"
            ELSE IF After(due_date.instant, current) THEN "keep" ELSE "drop"

\* The body of the inner loop for one assignment: "keep", "drop" (no due
\* date, the ValueError or AttributeError branch, or not in the future) or
\* "TypeError" (an aware and a naive datetime do not compare).
UpcomingVerdict(a, current) ==
    IF ~Truthy(a.due_at) THEN "drop"
    ELSE IF a.due_at.t # "str" THEN "drop"
    ELSE LET due_date == fromisoformat(ReplaceZ(a.due_at.s))
         IN IF due_date.kind = "ValueError" THEN "drop"
            ELSE IF due_date.kind = "naive" THEN "TypeError"
            ELSE IF After(due_date.instant, current) THEN "keep" ELSE "drop"

RECURSIVE ScanAssignments(_, _, _)
\* The inner loop over the assignments of one course.
ScanAssignments(course, assignments, current) ==
    IF assignments = <<>> THEN [raised |-> FALSE, kept |-> <<>>]
    ELSE LET verdict == UpcomingVerdict(Head(assignments), current)
             rest == ScanAssignments(course, Tail(assignments), current)
         IN IF verdict = "TypeError" THEN [raised |-> TRUE, kept |-> <<>>]
            ELSE IF verdict = "keep"
            THEN [raised |-> rest.raised,
                  kept |-> <<UpcomingRecord(course, Head(assignments))>> \o rest.kept]
            ELSE rest

MsgNaive == "can't compare offset-naive and offset-aware datetimes"

AssignmentsRequest(course_id) ==
    Request("assignments", CoursePath(course_id, "/assignments"), NoParams)

EnrollmentsRequest(course_id) ==
    Request("enrollments", CoursePath(course_id, "/enrollments"), NoParams)

CoursesRequest == Request("courses", "/courses", NoParams)

(***************************************************************************)
(* get_all_grades                                                          *)
(***************************************************************************)
GradeRecord(course, enrollment) ==
    [course_id |-> course.id, course_name |-> course.name, course_code |-> course.course_code,
     current_score |-> IF enrollment.grades.t = "missing" THEN <<>>
                       ELSE <<enrollment.grades.current_score>>]

(***************************************************************************)
(* Upstream payloads of the per-course endpoints.                          *)
(***************************************************************************)
DefaultViews ==
    {Missing, Null, Str("modules"), Str("wiki"), Str("syllabus"), Str("assignments"),
     Str("feed"), Str("gallery")}

SyllabusBodies == {Missing, Null, Str(""), Str("<p>Week 1</p>")}

CourseDetails(id) ==
    {[id |-> id, name |-> "Course " \o IntToStr(id), course_code |-> "C" \o IntToStr(id),
      default_view |-> view, syllabus_body |-> syllabus] :
        view \in DefaultViews, syllabus \in SyllabusBodies}

\* A tab: its `hidden` field is absent, true or false.
TabJson(i, hidden) == [label |-> "Tab " \o IntToStr(i), hidden |-> hidden]

TabLists ==
    UNION {{[i \in 1..n |-> TabJson(i, h[i])] : h \in [1..n -> {"missing", "true", "false"}]} :
           n \in 0..MaxItems}

FileJson(i) == [id |-> i, display_name |-> "file " \o IntToStr(i)]

FileLists == {[i \in 1..n |-> FileJson(i)] : n \in 0..MaxItems}

\* Module items come in upstream order, which need not be by position.
ItemJson(i, n) == [id |-> i, type |-> "Page", title |-> "item " \o IntToStr(i), position |-> n + 1 - i]

ItemValues ==
    {[t |-> "missing", list |-> <<>>]}
    \cup {[t |-> "list", list |-> [i \in 1..n |-> ItemJson(i, n)]] : n \in 0..MaxItems}

ModuleJson(i, items) == [id |-> i, name |-> "Week " \o IntToStr(i), position |-> i, items |-> items]

ModuleLists ==
    UNION {{[i \in 1..n |-> ModuleJson(i, items[i])] : items \in [1..n -> ItemValues]} :
           n \in 0..MaxItems}

PageJson(i) == [url |-> "page-" \o IntToStr(i), title |-> "Page " \o IntToStr(i)]

PageLists == {[i \in 1..n |-> PageJson(i)] : n \in 0..MaxItems}

FrontPages == {[title |-> "Home", body |-> body] : body \in {Null, Str("<p>Welcome</p>")}}

TopicJson(i) == [id |-> i, title |-> "Topic " \o IntToStr(i)]

TopicLists == {[i \in 1..n |-> TopicJson(i)] : n \in 0..MaxItems}

\* The payload a receiving step draws: one of the endpoint's payloads for a
\* 200 response, none otherwise; the same payload again in a repeated call.
Bodies(tr, payloads) ==
    IF Replaying THEN {first[1].log[Len(log) + 1].body}
    ELSE IF tr = Ok THEN payloads ELSE {<<>>}

(***************************************************************************)
(* get_course                                                              *)
(***************************************************************************)
\* The hints of view_hints; the dash of the source's texts is written "-".
HintModules == "This course uses Modules - use get_course_modules to browse weekly content."

HintWiki == "This course uses a home page - use get_course_home_page for main content."

HintSyllabus == "This course is syllabus-focused - use get_course_syllabus and get_assignments."

HintAssignments == "This course is assignment-centric - use get_assignments."

HintFeed == "This course uses an activity feed - check get_announcements for updates."

HintFallback == "Try get_course_modules or get_course_home_page to find content."

\* The lookup with the feed entry missing from the table.
NavigationHint_no_feed(default_view) ==
    IF default_view = Str("modules") THEN HintModules
    ELSE IF default_view = Str("wiki") THEN HintWiki
    ELSE IF default_view = Str("syllabus") THEN HintSyllabus
    ELSE IF default_view = Str("assignments") THEN HintAssignments
    ELSE HintFallback

\* view_hints.get(default_view, fallback)
NavigationHint(default_view) ==
    IF default_view = Str("modules") THEN HintModules
    ELSE IF default_view = Str("wiki") THEN HintWiki
    ELSE IF default_view = Str("syllabus") THEN HintSyllabus
    ELSE IF default_view = Str("assignments") THEN HintAssignments
    ELSE IF default_view = Str("feed") THEN HintFeed
    ELSE HintFallback

\* [t.get('label') for t in tabs if not t.get('hidden', False)], or [] when
\* the tabs request raised.
EnabledTabs(r, tabs) ==
    IF r.ok
    THEN LET shown == SelectSeq(tabs, LAMBDA t : t.hidden # "true")
         IN [i \in 1..Len(shown) |-> shown[i].label]
    ELSE <<>>

CourseDetail(course, enabled_tabs) ==
    LET default_view == GetOr(course.default_view, Str("unknown")) IN
    [id |-> course.id, name |-> course.name, course_code |-> course.course_code,
     default_view |-> default_view, enabled_tabs |-> enabled_tabs,
     navigation_hint |-> NavigationHint(default_view),
     syllabus_body |-> Get(course.syllabus_body)]

(***************************************************************************)
(* get_course_files, get_course_modules, get_course_pages,                 *)
(* get_course_home_page, get_course_syllabus, get_course_grades,           *)
(* get_course_discussions                                                  *)
(***************************************************************************)
FormatFiles(files) == [i \in 1..Len(files) |-> [id |-> files[i].id, display_name |-> files[i].display_name]]

get_course_files(r, files) ==
    IF r.ok THEN
        IF files = <<>>
        THEN Return([files |-> <<>>, count |-> 0,
                     message |-> "No files found. This course likely organises content via modules or pages. Try get_course_modules or get_course_home_page.",
                     suggestions |-> <<"get_course_modules", "get_course_home_page", "get_course_pages">>])
        ELSE Return([files |-> FormatFiles(files), count |-> Len(FormatFiles(files))])
    ELSE IF LooksForbidden(r.msg)
    THEN Return([files |-> <<>>, count |-> 0,
                 error |-> "Files tab is disabled or restricted for this course.",
                 suggestions |-> <<"get_course_modules", "get_course_home_page", "get_course_pages">>])
    ELSE IF LooksNotFound(r.msg)
    THEN Return([files |-> <<>>, count |-> 0,
                 error |-> "Files section not found for this course.",
                 suggestions |-> <<"get_course_modules", "get_course_home_page">>])
    ELSE Raise("CanvasAPIError", r.msg)

\* The items of a module listed by position instead of in upstream order.
FormatItems_by_position(items) ==
    [i \in 1..Len(items) |->
        LET item == CHOOSE it \in {items[k] : k \in 1..Len(items)} :
                        Cardinality({k \in 1..Len(items) : items[k].position < it.position}) = i - 1
        IN [id |-> item.id, type |-> item.type, title |-> item.title, position |-> item.position]]

FormatItems(items) ==
    [i \in 1..Len(items) |->
        [id |-> items[i].id, type |-> items[i].type, title |-> items[i].title,
         position |-> items[i].position]]

\* module.get('items', []) flattened, with its length
FormatModule(module) ==
    LET items == FormatItems(module.items.list) IN
    [id |-> module.id, name |-> module.name, position |-> module.position,
     items_count |-> Len(items), items |-> items]

get_course_modules(r, modules) ==
    IF r.ok THEN
        IF modules = <<>>
        THEN Return([modules |-> <<>>, count |-> 0,
                     message |-> "This course has no modules. Content may be on the home page or in pages. Try get_course_home_page or get_course_pages.",
                     suggestions |-> <<"get_course_home_page", "get_course_pages", "get_course_files">>])
        ELSE LET formatted == [i \in 1..Len(modules) |-> FormatModule(modules[i])]
             IN Return([modules |-> formatted, count |-> Len(formatted)])
    ELSE IF LooksNotFound(r.msg)
    THEN Return([modules |-> <<>>, count |-> 0,
                 message |-> "Modules not available for this course.",
                 suggestions |-> <<"get_course_home_page", "get_course_pages">>])
    ELSE Raise("CanvasAPIError", r.msg)

get_course_pages(r, pages) ==
    IF r.ok THEN
        IF pages = <<>>
        THEN Return(<<[info |-> "No pages found in this course."]>>)
        ELSE Return([i \in 1..Len(pages) |-> [page_id |-> pages[i].url, title |-> pages[i].title]])
    ELSE IF LooksForbidden(r.msg)
    THEN Return(<<[error |-> "Pages tab is disabled for this course."]>>)
    ELSE IF LooksNotFound(r.msg)
    THEN Return(<<[info |-> "Pages not available for this course."]>>)
    ELSE Raise("CanvasAPIError", r.msg)

get_course_home_page(r, page) ==
    IF r.ok THEN Return([title |-> page.title, body |-> page.body])
    ELSE IF LooksNotFound(r.msg)
    THEN Return([error |-> "This course does not have a custom home page.",
                 suggestions |-> <<"get_course_modules", "get_course_pages", "get_course_files">>])
    ELSE Raise("CanvasAPIError", r.msg)

MsgNoSyllabus == "No syllabus content found. The teacher may use modules or pages instead."

get_course_syllabus(r, course) ==
    IF r.ok
    THEN LET syllabus == Get(course.syllabus_body) IN
         Return([course_id |-> course.id, course_name |-> course.name,
                 course_code |-> course.course_code, syllabus_body |-> syllabus,
                 has_syllabus |-> Truthy(syllabus),
                 message |-> IF Truthy(syllabus) THEN Null ELSE Str(MsgNoSyllabus)])
    ELSE Raise("CanvasAPIError", r.msg)

get_course_grades(course_id, r, enrollments) ==
    IF r.ok THEN
        IF enrollments = <<>>
        THEN Return([course_id |-> course_id,
                     error |-> "No student enrollment found. You may not be a student in this course."])
        ELSE Return([course_id |-> course_id, enrollment_type |-> enrollments[1].type,
                     current_score |-> IF enrollments[1].grades.t = "missing" THEN <<>>
                                       ELSE <<enrollments[1].grades.current_score>>])
    ELSE IF LooksForbidden(r.msg)
    THEN Return([course_id |-> course_id,
                 error |-> "Grades are hidden or restricted for this course."])
    ELSE IF LooksNotFound(r.msg)
    THEN Return([course_id |-> course_id,
                 error |-> "Course " \o IntToStr(course_id) \o " not found."])
    ELSE Raise("CanvasAPIError", r.msg)

get_course_discussions(r, topics) ==
    IF r.ok THEN
        IF topics = <<>>
        THEN Return(<<[info |-> "No discussion topics found in this course."]>>)
        ELSE Return([i \in 1..Len(topics) |-> [id |-> topics[i].id, title |-> topics[i].title]])
    ELSE IF LooksForbidden(r.msg)
    THEN Return(<<[error |-> "Discussions are restricted for this course."]>>)
    ELSE IF LooksNotFound(r.msg)
    THEN Return(<<[info |-> "Discussions not available for this course."]>>)
    ELSE Raise("CanvasAPIError", r.msg)

CourseTools ==
    {"get_course_details", "get_assignments", "get_course_files", "get_course_modules",
     "get_course_pages", "get_course_home_page", "get_course_syllabus", "get_course_grades",
     "get_course_discussions"}

\* The course ids callers pass.
ArgCourseIds == {1, 404}

PerPage(n) == [NoParams EXCEPT !.per_page = <<n>>]

\* The first request of a client method that takes a course id.
FirstRequest(op, course_id) ==
    IF op \in {"get_course", "get_course_syllabus"}
    THEN Request("course", CoursePath(course_id, ""), NoParams)
    ELSE IF op = "get_assignments" THEN AssignmentsRequest(course_id)
    ELSE IF op = "get_course_files"
    THEN Request("files", CoursePath(course_id, "/files"), PerPage(100))
    ELSE IF op = "get_course_modules"
    THEN Request("modules", CoursePath(course_id, "/modules"), PerPage(50))
    ELSE IF op = "get_course_pages"
    THEN Request("pages", CoursePath(course_id, "/pages"), PerPage(100))
    ELSE IF op = "get_course_home_page"
    THEN Request("front_page", CoursePath(course_id, "/front_page"), NoParams)
    ELSE IF op = "get_course_grades" THEN EnrollmentsRequest(course_id)
    ELSE Request("discussion_topics", CoursePath(course_id, "/discussion_topics"), PerPage(50))

\* Conclude with a client that drops its token when the method fails.
Conclude_forgetful(tr, body, outcome) ==
    /\ log' = Logged(tr, body)
    /\ Finish(outcome)
    /\ canvas' = IF outcome.kind = "raise"
                 THEN [canvas EXCEPT !.token = "", !.authorization = "Bearer "]
                 ELSE canvas
    /\ UNCHANGED <<env, call, now, courses, idx, acc, held>>

\* The client method ends with the response it was waiting for.
Conclude(tr, body, outcome) ==
    /\ log' = Logged(tr, body)
    /\ Finish(outcome)
    /\ UNCHANGED <<env, canvas, call, now, courses, idx, acc, held>>

(***************************************************************************)
(* Dates: strftime('%Y-%m-%d') and timedelta(days=n).                      *)
(***************************************************************************)
RECURSIVE Pad(_, _)
\* the numeral n, zero-padded to width digits
Pad(n, width) == IF Len(IntToStr(n)) >= width THEN IntToStr(n) ELSE "0" \o Pad(n, width - 1)

\* The civil date of a day number (the inverse of DaysFromCivil).
CivilFromDays(days) ==
    LET z == days + 719468
        era == z \div 146097
        doe == z - era * 146097
        yoe == (doe - doe \div 1460 + doe \div 36524 - doe \div 146096) \div 365
        doy == doe - (365 * yoe + yoe \div 4 - yoe \div 100)
        mp == (5 * doy + 2) \div 153
        d == doy - (153 * mp + 2) \div 5 + 1
        m == IF mp < 10 THEN mp + 3 ELSE mp - 9
    IN [y |-> yoe + era * 400 + (IF m <= 2 THEN 1 ELSE 0), m |-> m, d |-> d]

\* instant.strftime('%Y-%m-%d')
Strftime(instant) ==
    LET c == CivilFromDays(instant[1]) IN Pad(c.y, 4) \o "-" \o Pad(c.m, 2) \o "-" \o Pad(c.d, 2)

\* datetime.min and datetime.max as day numbers: 0001-01-01 and 9999-12-31
MinDay == DaysFromCivil(1, 1, 1)

MaxDay == DaysFromCivil(9999, 12, 31)

\* `instant + timedelta(days=n)` raises OverflowError when the timedelta (at
\* most 999999999 days) or the sum leaves the range of the type.
ShiftOverflows(instant, n) ==
    \/ n > 999999999 \/ n < -999999999
    \/ instant[1] + n > MaxDay \/ instant[1] + n < MinDay

Shift(instant, n) == <<instant[1] + n, instant[2]>>

MsgOverflow == "date value out of range"

(***************************************************************************)
(* Context codes.                                                          *)
(***************************************************************************)
ContextCode(course_id) == "course_" \o IntToStr(course_id)

ContextCodes(list) == [i \in 1..Len(list) |-> ContextCode(list[i].id)]

RECURSIVE LastSegment(_)
\* context.split('_')[-1]
LastSegment(s) ==
    IF Contains(s, "_")
    THEN LastSegment(SubSeq(s, (CHOOSE i \in 1..Len(s) : CharAt(s, i) = "_"
                                    /\ \A j \in 1..(i - 1) : CharAt(s, j) # "_") + 1, Len(s)))
    ELSE s

\* int(text): <<n>>, or <<>> for the ValueError.
ParseInt(text) ==
    IF IsDigits(text) THEN <<DigitsToInt(text)>>
    ELSE IF Len(text) > 1 /\ CharAt(text, 1) = "+" /\ IsDigits(SubSeq(text, 2, Len(text)))
    THEN <<DigitsToInt(SubSeq(text, 2, Len(text)))>>
    ELSE IF Len(text) > 1 /\ CharAt(text, 1) = "-" /\ IsDigits(SubSeq(text, 2, Len(text)))
    THEN <<0 - DigitsToInt(SubSeq(text, 2, Len(text)))>>
    ELSE <<>>

\* cid computed from the whole context code, without the split
ContextCourseId_whole(context_code) == ParseInt(GetOr(context_code, Str("")).s)

\* cid as both loops compute it from event.get('context_code', '')
ContextCourseId(context_code) == ParseInt(LastSegment(GetOr(context_code, Str("")).s))

\* course_map.get(cid): <<name>>, or <<>> when cid is no key of the map
CourseMapGet(list, cid) ==
    IF cid # <<>> /\ \E i \in 1..Len(list) : list[i].id = cid[1]
    THEN <<list[CHOOSE i \in 1..Len(list) : list[i].id = cid[1]
                                            /\ \A j \in (i + 1)..Len(list) : list[j].id # cid[1]].name>>
    ELSE <<>>

(***************************************************************************)
(* Upstream payloads: calendar events, announcements, submissions,         *)
(* discussion entries.                                                     *)
(***************************************************************************)
\* context_code is a string when it is present.
ContextValues ==
    {Missing, Str("course_1"), Str("course_9"), Str("user_1"), Str("course_x")}

StampValues == {Null, Str(""), Str("2026-11-01T10:00:00Z"), Str("2026-11-02T10:00:00Z")}

EventJson(i, context, start_at) ==
    [id |-> i, title |-> "Event " \o IntToStr(i), context_code |-> context, start_at |-> start_at]

EventLists ==
    UNION {{[i \in 1..n |-> EventJson(i, c[i], t[i])] :
               c \in [1..n -> ContextValues], t \in [1..n -> StampValues]} :
           n \in 0..MaxItems}

AnnouncementJson(i, context, posted_at) ==
    [id |-> i, title |-> "News " \o IntToStr(i), context_code |-> context, posted_at |-> posted_at]

AnnouncementLists ==
    UNION {{[i \in 1..n |-> AnnouncementJson(i, c[i], t[i])] :
               c \in [1..n -> ContextValues], t \in [1..n -> StampValues]} :
           n \in 0..MaxItems}

\* The `assignment` object of a submission: absent, null, or an object with
\* a name and a due_at.
AssignmentValues ==
    {[t |-> "missing", name |-> "", due_at |-> Null], [t |-> "null", name |-> "", due_at |-> Null]}
    \cup {[t |-> "dict", name |-> "Essay", due_at |-> due] :
            due \in {Null, Str(""), Str("2026-11-01T12:00:00Z"), Str("2026-11-02T08:00:00Z")}}

StateValues == {Missing, Null, Str("graded"), Str("submitted"), Str("unsubmitted")}

SubmissionJson(i, assignment, state) ==
    [assignment_id |-> i, assignment |-> assignment, workflow_state |-> state, score |-> i]

MaxSubmissions == 2

SubmissionLists ==
    UNION {{[i \in 1..n |-> SubmissionJson(i, a[i], w[i])] :
               a \in [1..n -> AssignmentValues], w \in [1..n -> StateValues]} :
           n \in 0..MaxSubmissions}

Submissions ==
    {SubmissionJson(1, a, w) : a \in AssignmentValues, w \in StateValues}

\* The largest page get_discussion_entries asks for
MaxPage == 50

\* More entries than the largest page.
ManyEntries == MaxPage + 1

EntryJson(i) == [id |-> i, user_name |-> "user " \o IntToStr(i)]

EntryLists == {[i \in 1..n |-> EntryJson(i)] : n \in (0..MaxItems) \cup {ManyEntries}}

(***************************************************************************)
(* get_calendar_events, get_all_calendar_events                            *)
(***************************************************************************)
FormatEvent(event) == [id |-> event.id, title |-> event.title, start_at |-> Get(event.start_at)]

get_calendar_events(start, end, r, events) ==
    IF r.ok THEN
        IF events = <<>>
        THEN Return(<<[info |-> "No calendar events found between " \o start \o " and "
                                \o end \o "."]>>)
        ELSE Return([i \in 1..Len(events) |-> FormatEvent(events[i])])
    ELSE IF LooksForbidden(r.msg)
    THEN Return(<<[error |-> "Calendar access is restricted for this course."]>>)
    ELSE Raise("CanvasAPIError", r.msg)

FormatCourseEvent(event, list) ==
    LET cid == ContextCourseId(event.context_code)
        found == CourseMapGet(list, cid)
    IN [id |-> event.id, title |-> event.title,
        course_name |-> IF found = <<>> THEN "Unknown Course" ELSE found[1],
        course_id |-> cid, start_at |-> Get(event.start_at)]

get_all_calendar_events(days_ahead, list, r, events) ==
    IF r.ok THEN
        IF events = <<>>
        THEN Return(<<[info |-> "No calendar events found in the next "
                                \o IntToStr(days_ahead) \o " days."]>>)
        ELSE Return(StableSort([i \in 1..Len(events) |-> FormatCourseEvent(events[i], list)],
                               "start_at"))
    ELSE Return(<<[error |-> r.msg]>>)

CalendarRequest(codes, start, end) ==
    Request("calendar_events", "/calendar_events",
            [per_page |-> <<100>>, context_codes |-> codes, start_date |-> start, end_date |-> end])

(***************************************************************************)
(* get_announcements                                                       *)
(***************************************************************************)
\* `course_map.get(cid) if cid else None`, with the empty map of the
\* one-course branch
FormatAnnouncement(ann, list) ==
    LET cid == ContextCourseId(ann.context_code) IN
    [id |-> ann.id, title |-> ann.title, posted_at |-> Get(ann.posted_at), course_id |-> cid,
     course_name |-> IF cid # <<>> /\ cid[1] # 0 THEN CourseMapGet(list, cid) ELSE <<>>]

\* `if course_id:` is false for None and for 0
Scoped(c) == c.has_course /\ c.course_id # 0

get_announcements(c, list, r, announcements) ==
    IF r.ok THEN
        IF announcements = <<>>
        THEN Return(<<[info |-> "No announcements in the last " \o IntToStr(c.days)
                                \o " days for "
                                \o (IF Scoped(c) THEN "course " \o IntToStr(c.course_id)
                                    ELSE "any active course") \o "."]>>)
        ELSE Return(StableSort([i \in 1..Len(announcements) |->
                                    FormatAnnouncement(announcements[i], list)],
                               "posted_at_desc"))
    ELSE IF LooksForbidden(r.msg)
    THEN Return(<<[error |-> "Announcements are restricted."]>>)
    ELSE Raise("CanvasAPIError", r.msg)

AnnouncementsRequest(codes, start) ==
    Request("announcements", "/announcements",
            [per_page |-> <<50>>, context_codes |-> codes, start_date |-> start, end_date |-> ""])

(***************************************************************************)
(* get_assignment_submission, get_all_assignment_grades                    *)
(***************************************************************************)
\* assignment.get('name', f'Assignment {id}') on `sub.get('assignment') or {}`
AssignmentName(assignment, id) ==
    IF assignment.t = "dict" THEN assignment.name ELSE "Assignment " \o IntToStr(id)

get_assignment_submission(course_id, assignment_id, r, submission) ==
    IF r.ok
    THEN LET workflow_state == GetOr(submission.workflow_state, Str("unsubmitted")) IN
         Return([course_id |-> course_id, assignment_id |-> assignment_id,
                 assignment_name |-> AssignmentName(submission.assignment, assignment_id),
                 submitted |-> workflow_state # Str("unsubmitted"),
                 workflow_state |-> workflow_state, score |-> submission.score])
    ELSE IF LooksNotFound(r.msg)
    THEN Return([error |-> "Assignment " \o IntToStr(assignment_id) \o " not found in course "
                           \o IntToStr(course_id) \o "."])
    ELSE IF LooksForbidden(r.msg)
    THEN Return([error |-> "You do not have permission to view this submission."])
    ELSE Raise("CanvasAPIError", r.msg)

FormatSubmission(sub) ==
    [assignment_id |-> sub.assignment_id,
     assignment_name |-> AssignmentName(sub.assignment, sub.assignment_id),
     due_at |-> sub.assignment.due_at,
     submitted |-> Get(sub.workflow_state) # Str("unsubmitted"),
     workflow_state |-> Get(sub.workflow_state), score |-> sub.score]

get_all_assignment_grades(course_id, r, submissions) ==
    IF r.ok THEN
        IF submissions = <<>>
        THEN Return(<<[info |-> "No submissions found for this course."]>>)
        ELSE Return(StableSort([i \in 1..Len(submissions) |-> FormatSubmission(submissions[i])],
                               "graded_due_at"))
    ELSE IF LooksForbidden(r.msg)
    THEN Return(<<[error |-> "Grades are hidden or restricted for this course."]>>)
    ELSE IF LooksNotFound(r.msg)
    THEN Return(<<[error |-> "Course " \o IntToStr(course_id) \o " not found."]>>)
    ELSE Raise("CanvasAPIError", r.msg)

(***************************************************************************)
(* get_discussion_entries                                                  *)
(***************************************************************************)

\* min(limit, 50)
PageSize(limit) == IF limit < MaxPage THEN limit ELSE MaxPage

\* entries[:limit]: a negative limit counts from the end
Slice(list, limit) ==
    IF limit >= 0 THEN SubSeq(list, 1, IF limit < Len(list) THEN limit ELSE Len(list))
    ELSE SubSeq(list, 1, Len(list) + limit)

get_discussion_entries(course_id, topic_id, limit, r, entries) ==
    IF r.ok THEN
        IF entries = <<>>
        THEN Return(<<[info |-> "No posts found in this discussion topic."]>>)
        ELSE LET taken == Slice(entries, limit)
             IN Return([i \in 1..Len(taken) |-> [id |-> taken[i].id, user_name |-> taken[i].user_name]])
    ELSE IF LooksNotFound(r.msg)
    THEN Return(<<[error |-> "Discussion topic " \o IntToStr(topic_id) \o " not found in course "
                             \o IntToStr(course_id) \o "."]>>)
    ELSE Raise("CanvasAPIError", r.msg)

(***************************************************************************)
(* Tool calls.                                                             *)
(***************************************************************************)
ClientMethod(tool) ==
    IF tool = "list_courses" THEN "get_courses"
    ELSE IF tool = "get_course_details" THEN "get_course"
    ELSE IF tool = "get_upcoming_deadlines" THEN "get_upcoming_assignments"
    ELSE tool

\* A call starts: nothing of an earlier call is left.
Begin(c) ==
    /\ pc = "idle"
    /\ first # <<>> => c = first[1].call
    /\ call' = c
    /\ UNCHANGED <<env, canvas, courses, idx, acc, log>>

\* list_courses, get_upcoming_deadlines, get_all_grades: no argument; the
\* client method starts with get_courses.
CallFanOut ==
    \E tool \in {"list_courses", "get_upcoming_deadlines", "get_all_grades"} :
        /\ Begin([NoCall EXCEPT !.tool = tool, !.op = ClientMethod(tool)])
        /\ Issue(CoursesRequest)
        /\ UNCHANGED <<now, held>>

\* The response to GET /courses, and what the calling method does next.
ReceiveCourses ==
    /\ Awaiting("courses")
    /\ \E tr \in Outcomes :
        LET r == _make_request(tr) IN
        IF ~r.ok
        THEN Conclude(tr, <<>>, Raise("CanvasAPIError", r.msg))
        ELSE \E body \in Bodies(tr, CourseLists) :
            LET formatted == FormatCourses(body) IN
            /\ log' = Logged(tr, body)
            /\ courses' = formatted
            /\ UNCHANGED <<env, canvas, call, acc, held>>
            /\ IF call.op = "get_courses"
               THEN Finish(Return(formatted)) /\ UNCHANGED <<now, idx>>
               ELSE IF call.op = "get_upcoming_assignments"
               THEN /\ \E current \in Nows : now' = current
                    /\ IF formatted = <<>>
                       THEN Finish(Return(<<>>)) /\ UNCHANGED idx
                       ELSE Issue(AssignmentsRequest(formatted[1].id)) /\ idx' = 1
               ELSE IF call.op = "get_all_grades"
               THEN /\ UNCHANGED now
                    /\ IF formatted = <<>>
                       THEN Finish(Return(<<>>)) /\ UNCHANGED idx
                       ELSE Issue(EnrollmentsRequest(formatted[1].id)) /\ idx' = 1
               ELSE IF call.op = "get_all_calendar_events"
               THEN /\ UNCHANGED <<now, idx>>
                    /\ IF formatted = <<>>
                       THEN Finish(Return(<<[info |-> "No active courses found."]>>))
                       ELSE Issue(CalendarRequest(ContextCodes(formatted),
                                                  held[1].start, held[1].end))
               ELSE /\ call.op = "get_announcements"
                    /\ UNCHANGED <<now, idx>>
                    /\ IF ContextCodes(formatted) = <<>>
                       THEN Finish(Return(<<[info |-> "No active courses found."]>>))
                       ELSE Issue(AnnouncementsRequest(ContextCodes(formatted), held[1].start))

\* The response to GET /courses/{id}/assignments.
ReceiveAssignments ==
    /\ Awaiting("assignments")
    /\ \E tr \in Outcomes :
        LET r == _make_request(tr) IN
        \E body \in Bodies(tr, AssignmentLists(IF call.op = "get_assignments"
                                                THEN call.course_id ELSE courses[idx].id)) :
            /\ log' = Logged(tr, body)
            /\ UNCHANGED <<env, canvas, call, now, courses, held>>
            /\ IF call.op = "get_assignments"
               THEN /\ Finish(IF r.ok THEN Return(FormatAssignments(body))
                              ELSE Raise("CanvasAPIError", r.msg))
                    /\ UNCHANGED <<idx, acc>>
               ELSE LET scan == IF r.ok
                                THEN ScanAssignments(courses[idx], FormatAssignments(body), now)
                                ELSE [raised |-> FALSE, kept |-> <<>>]
                        all_assignments == acc \o scan.kept
                    IN /\ acc' = all_assignments
                       /\ IF scan.raised
                          THEN Finish(Raise("TypeError", MsgNaive)) /\ UNCHANGED idx
                          ELSE IF idx < Len(courses)
                          THEN Issue(AssignmentsRequest(courses[idx + 1].id)) /\ idx' = idx + 1
                          ELSE /\ Finish(Return(StableSort(all_assignments, "due_at")))
                               /\ UNCHANGED idx

\* The response to GET /courses/{id}/enrollments.
ReceiveEnrollments ==
    /\ Awaiting("enrollments")
    /\ \E tr \in Outcomes :
        LET r == _make_request(tr) IN
        \E body \in Bodies(tr, EnrollmentLists) :
            /\ log' = Logged(tr, body)
            /\ UNCHANGED <<env, canvas, call, now, courses, held>>
            /\ IF call.op = "get_course_grades"
               THEN /\ Finish(get_course_grades(call.course_id, r, body))
                    /\ UNCHANGED <<idx, acc>>
               ELSE LET all_grades == IF r.ok /\ body # <<>>
                                      THEN Append(acc, GradeRecord(courses[idx], body[1]))
                                      ELSE acc
                    IN /\ acc' = all_grades
                       /\ IF idx < Len(courses)
                          THEN Issue(EnrollmentsRequest(courses[idx + 1].id)) /\ idx' = idx + 1
                          ELSE Finish(Return(all_grades)) /\ UNCHANGED idx

\* Tools whose only argument is a course id.
CallCourseTool ==
    \E tool \in CourseTools, course_id \in ArgCourseIds :
        /\ Begin([NoCall EXCEPT !.tool = tool, !.op = ClientMethod(tool),
                                !.course_id = course_id, !.has_course = TRUE])
        /\ Issue(FirstRequest(ClientMethod(tool), course_id))
        /\ UNCHANGED <<now, held>>

\* The response to GET /courses/{id}: get_course_syllabus ends, get_course
\* goes on to fetch the tabs.
ReceiveCourse ==
    /\ Awaiting("course")
    /\ \E tr \in Outcomes :
        LET r == _make_request(tr) IN
        \E body \in Bodies(tr, CourseDetails(call.course_id)) :
            /\ log' = Logged(tr, body)
            /\ UNCHANGED <<env, canvas, call, now, courses, idx, acc>>
            /\ IF call.op = "get_course_syllabus"
               THEN Finish(get_course_syllabus(r, body)) /\ UNCHANGED held
               ELSE IF ~r.ok
               THEN Finish(Raise("CanvasAPIError", r.msg)) /\ UNCHANGED held
               ELSE /\ held' = <<body>>
                    /\ Issue(Request("tabs", CoursePath(call.course_id, "/tabs"), NoParams))

\* The response to GET /courses/{id}/tabs: get_course returns either way.
ReceiveTabs ==
    /\ Awaiting("tabs")
    /\ \E tr \in Outcomes :
        \E body \in Bodies(tr, TabLists) :
            /\ log' = Logged(tr, body)
            /\ Finish(Return(CourseDetail(held[1], EnabledTabs(_make_request(tr), body))))
            /\ UNCHANGED <<env, canvas, call, now, courses, idx, acc, held>>

\* The files step with a second try after a failed request.
ReceiveFiles_retry ==
    /\ Awaiting("files")
    /\ \E tr \in Outcomes :
        \E body \in Bodies(tr, FileLists) :
            IF _make_request(tr).ok \/ log # <<>>
            THEN Conclude(tr, body, get_course_files(_make_request(tr), body))
            ELSE /\ log' = Logged(tr, body)
                 /\ Issue(inflight[1])
                 /\ UNCHANGED <<env, canvas, call, now, courses, idx, acc, held>>

ReceiveFiles ==
    /\ Awaiting("files")
    /\ \E tr \in Outcomes :
        \E body \in Bodies(tr, FileLists) :
            Conclude(tr, body, get_course_files(_make_request(tr), body))

ReceiveModules ==
    /\ Awaiting("modules")
    /\ \E tr \in Outcomes :
        \E body \in Bodies(tr, ModuleLists) :
            Conclude(tr, body, get_course_modules(_make_request(tr), body))

ReceivePages ==
    /\ Awaiting("pages")
    /\ \E tr \in Outcomes :
        \E body \in Bodies(tr, PageLists) :
            Conclude(tr, body, get_course_pages(_make_request(tr), body))

ReceiveFrontPage ==
    /\ Awaiting("front_page")
    /\ \E tr \in Outcomes :
        \E body \in Bodies(tr, FrontPages) :
            Conclude(tr, body, get_course_home_page(_make_request(tr), body))

ReceiveDiscussions ==
    /\ Awaiting("discussion_topics")
    /\ \E tr \in Outcomes :
        \E body \in Bodies(tr, TopicLists) :
            Conclude(tr, body, get_course_discussions(_make_request(tr), body))

\* The dates a caller passes to get_calendar_events: none, or a day.
DateArgs == {<<>>, <<"2026-11-05">>}

\* get_calendar_events(course_id, start_date, end_date)
CallCalendar ==
    \E course_id \in ArgCourseIds, start_date \in DateArgs, end_date \in DateArgs,
       current \in Nows :
        LET start == IF start_date # <<>> /\ start_date[1] # "" THEN start_date[1]
                     ELSE Strftime(current)
            end == IF end_date # <<>> /\ end_date[1] # "" THEN end_date[1]
                   ELSE Strftime(Shift(current, 30))
        IN /\ Begin([NoCall EXCEPT !.tool = "get_calendar_events", !.op = "get_calendar_events",
                                   !.course_id = course_id, !.has_course = TRUE,
                                   !.start_date = start_date, !.end_date = end_date])
           /\ now' = current
           /\ Issue(CalendarRequest(<<ContextCode(course_id)>>, start, end))
           /\ UNCHANGED held

\* The day counts a caller passes: the default, and one that leaves the
\* range of dates.
DaysAheadArgs == {7, 4000000}

DaysBackArgs == {14, 4000000}

\* get_all_calendar_events(days_ahead): the window is computed first.
CallAllCalendar ==
    \E days_ahead \in DaysAheadArgs, current \in Nows :
        LET c == [NoCall EXCEPT !.tool = "get_all_calendar_events",
                                !.op = "get_all_calendar_events", !.days = days_ahead]
        IN /\ Begin(c)
           /\ now' = current
           /\ IF ShiftOverflows(current, days_ahead)
              THEN FinishCall(c, Raise("OverflowError", MsgOverflow)) /\ UNCHANGED held
              ELSE /\ held' = <<[start |-> Strftime(current),
                                 end |-> Strftime(Shift(current, days_ahead))]>>
                   /\ Issue(CoursesRequest)

\* The course ids a caller passes to get_announcements: none, 0, or a course.
AnnouncementArgs == {<<>>, <<0>>, <<1>>}

\* get_announcements(course_id, days_back)
CallAnnouncements ==
    \E course \in AnnouncementArgs, days_back \in DaysBackArgs, current \in Nows :
        LET c == [NoCall EXCEPT !.tool = "get_announcements", !.op = "get_announcements",
                                !.has_course = (course # <<>>),
                                !.course_id = IF course # <<>> THEN course[1] ELSE 0,
                                !.days = days_back]
        IN /\ Begin(c)
           /\ now' = current
           /\ IF ShiftOverflows(current, 0 - days_back)
              THEN FinishCall(c, Raise("OverflowError", MsgOverflow)) /\ UNCHANGED held
              ELSE LET start_date == Strftime(Shift(current, 0 - days_back)) IN
                   /\ held' = <<[start |-> start_date, end |-> ""]>>
                   /\ IF Scoped(c)
                      THEN Issue(AnnouncementsRequest(<<ContextCode(c.course_id)>>, start_date))
                      ELSE Issue(CoursesRequest)

\* get_assignment_submission(course_id, assignment_id)
CallSubmission ==
    \E course_id \in ArgCourseIds, assignment_id \in {7} :
        /\ Begin([NoCall EXCEPT !.tool = "get_assignment_submission",
                                !.op = "get_assignment_submission", !.course_id = course_id,
                                !.has_course = TRUE, !.other_id = assignment_id])
        /\ Issue(Request("submission",
                         CoursePath(course_id, "/assignments/" \o IntToStr(assignment_id)
                                               \o "/submissions/self"), NoParams))
        /\ UNCHANGED <<now, held>>

\* The limits a caller passes to get_discussion_entries.
LimitArgs == {-1, 0, 1, 20, 100}

\* get_discussion_entries(course_id, topic_id, limit)
CallEntries ==
    \E course_id \in ArgCourseIds, topic_id \in {3}, limit \in LimitArgs :
        /\ Begin([NoCall EXCEPT !.tool = "get_discussion_entries",
                                !.op = "get_discussion_entries", !.course_id = course_id,
                                !.has_course = TRUE, !.other_id = topic_id, !.limit = limit])
        /\ Issue(Request("entries",
                         CoursePath(course_id, "/discussion_topics/" \o IntToStr(topic_id)
                                               \o "/entries"), PerPage(PageSize(limit))))
        /\ UNCHANGED <<now, held>>

\* A client method no tool exposes, called on the client itself.
CallClientMethod ==
    \E op \in ClientOnly, course_id \in ArgCourseIds :
        /\ Begin([NoCall EXCEPT !.op = op, !.course_id = course_id, !.has_course = TRUE])
        /\ Issue(Request("submissions", CoursePath(course_id, "/students/submissions"),
                         PerPage(100)))
        /\ UNCHANGED <<now, held>>

ReceiveCalendarEvents ==
    /\ Awaiting("calendar_events")
    /\ \E tr \in Outcomes :
        \E body \in Bodies(tr, EventLists) :
            Conclude(tr, body,
                     IF call.op = "get_calendar_events"
                     THEN get_calendar_events(inflight[1].params.start_date,
                                              inflight[1].params.end_date,
                                              _make_request(tr), body)
                     ELSE get_all_calendar_events(call.days, courses, _make_request(tr), body))

ReceiveAnnouncements ==
    /\ Awaiting("announcements")
    /\ \E tr \in Outcomes :
        \E body \in Bodies(tr, AnnouncementLists) :
            Conclude(tr, body, get_announcements(call, courses, _make_request(tr), body))

ReceiveSubmission ==
    /\ Awaiting("submission")
    /\ \E tr \in Outcomes :
        \E body \in Bodies(tr, Submissions) :
            Conclude(tr, body, get_assignment_submission(call.course_id, call.other_id,
                                                         _make_request(tr), body))

ReceiveSubmissions ==
    /\ Awaiting("submissions")
    /\ \E tr \in Outcomes :
        \E body \in Bodies(tr, SubmissionLists) :
            Conclude(tr, body, get_all_assignment_grades(call.course_id, _make_request(tr), body))

ReceiveEntries ==
    /\ Awaiting("entries")
    /\ \E tr \in Outcomes :
        \E body \in Bodies(tr, EntryLists) :
            Conclude(tr, body, get_discussion_entries(call.course_id, call.other_id, call.limit,
                                                      _make_request(tr), body))

\* The caller takes the result; the server waits for the next call.
Finished ==
    /\ pc = "done"
    /\ pc' = "idle"
    /\ call' = NoCall
    /\ now' = <<0, 0>>
    /\ courses' = <<>>
    /\ idx' = 0
    /\ acc' = <<>>
    /\ held' = <<>>
    /\ log' = <<>>
    /\ client' = NoOutcome
    /\ result' = NoOutcome
    /\ first' = <<>>
    /\ UNCHANGED <<env, canvas, inflight>>

\* The most requests of a call the caller repeats
MaxKept == 2

\* The end of a kept call with the accumulated list left in place, as if
\* all_assignments / all_grades outlived the call.
FinishedKept_leaking ==
    /\ pc = "done"
    /\ first = <<>>
    /\ Len(log) <= MaxKept
    /\ first' = <<[call |-> call, now |-> now, log |-> log, result |-> result]>>
    /\ pc' = "idle"
    /\ call' = NoCall
    /\ now' = <<0, 0>>
    /\ courses' = <<>>
    /\ idx' = 0
    /\ acc' = acc
    /\ held' = <<>>
    /\ log' = <<>>
    /\ client' = NoOutcome
    /\ result' = NoOutcome
    /\ UNCHANGED <<env, canvas, inflight>>

\* The caller takes the result and keeps it, to call the same operation
\* again with the same arguments while upstream stays as it is.
FinishedKept ==
    /\ pc = "done"
    /\ first = <<>>
    /\ Len(log) <= MaxKept
    /\ first' = <<[call |-> call, now |-> now, log |-> log, result |-> result]>>
    /\ pc' = "idle"
    /\ call' = NoCall
    /\ now' = <<0, 0>>
    /\ courses' = <<>>
    /\ idx' = 0
    /\ acc' = <<>>
    /\ held' = <<>>
    /\ log' = <<>>
    /\ client' = NoOutcome
    /\ result' = NoOutcome
    /\ UNCHANGED <<env, canvas, inflight>>

Next ==
    \/ Startup
    \/ CallFanOut
    \/ ReceiveCourses
    \/ ReceiveAssignments
    \/ ReceiveEnrollments
    \/ CallCourseTool
    \/ ReceiveCourse
    \/ ReceiveTabs
    \/ ReceiveFiles
    \/ ReceiveModules
    \/ ReceivePages
    \/ ReceiveFrontPage
    \/ ReceiveDiscussions
    \/ CallCalendar
    \/ CallAllCalendar
    \/ CallAnnouncements
    \/ CallSubmission
    \/ CallEntries
    \/ CallClientMethod
    \/ ReceiveCalendarEvents
    \/ ReceiveAnnouncements
    \/ ReceiveSubmission
    \/ ReceiveSubmissions
    \/ ReceiveEntries
    \/ Finished
    \/ FinishedKept


Spec == Init /\ [][Next]_vars

\* The outstanding request ends: requests.get is called with timeout=30, so
\* it returns a response or raises (a timeout, a connection error, another
\* request error), and the method that waited for it goes on: it ends, or
\* it logs the request and sends the next one.
\* Every step Next takes from a waiting state is of the second kind. The
\* first kind is no step of Next: it is the successor TLC enumerates to see
\* that the action is enabled, which it is in every waiting state.
RequestEnds ==
    /\ pc = "waiting"
    /\ \/ /\ pc' = "done"
          /\ UNCHANGED <<env, canvas, call, now, inflight, courses, idx, acc, held, log,
                          client, result, first>>
       \/ Len(log') > Len(log)

\* The program with every outbound request eventually ended.
FairSpec == Spec /\ WF_vars(RequestEnds)


(***************************************************************************)
(* Properties.                                                             *)
(***************************************************************************)
Done(op) == pc = "done" /\ call.op = op

\* C1: a facade operation hands its caller a data payload for every argument
\* and every outcome of its upstream requests; no exception leaves the facade.
C1_FacadeNeverRaises == (pc = "done" /\ call.tool # "") => result.kind = "return"

\* The status-specific messages are four different texts.
FixedMessage(status) ==
    IF status = 401 THEN "Authentication failed. Please check your CANVAS_TOKEN."
    ELSE IF status = 403
    THEN "Access forbidden. You may not have permission to access this resource."
    ELSE IF status = 404 THEN "Resource not found. Please check the course ID or endpoint."
    ELSE "Rate limit exceeded. Please wait a moment and try again."

\* C2: _make_request maps a 200 response to the parsed body, a 401, 403, 404
\* or 429 response to a CanvasAPIError with that status's own fixed message,
\* and any other status to a CanvasAPIError whose message holds the status
\* code and the first 200 characters of the body.
C2_StatusMapping ==
    \A i \in 1..Len(log) :
        LET tr == log[i].tr
            got == log[i].outcome
        IN tr.kind = "response" =>
            IF tr.status = 200 THEN got.ok
            ELSE IF tr.status \in {401, 403, 404, 429}
            THEN ~got.ok /\ got.msg = FixedMessage(tr.status)
            ELSE /\ ~got.ok
                 /\ got.msg \notin {FixedMessage(st) : st \in {401, 403, 404, 429}}
                 /\ Contains(got.msg, IntToStr(tr.status))
                 /\ Contains(got.msg, SubSeq(tr.text, 1, IF Len(tr.text) < 200
                                                         THEN Len(tr.text) ELSE 200))
                 /\ (Len(tr.text) > 200 => ~Contains(got.msg, tr.text))

\* C2 witness: after a 200, a response with a status outside the five and a
\* body longer than 200 characters has been mapped.
C2_Witness ==
    /\ pc = "done"
    /\ Len(log) = 2
    /\ log[1].tr.kind = "response" /\ log[1].tr.status = 200
    /\ log[2].tr.kind = "response" /\ log[2].tr.status = 500 /\ Len(log[2].tr.text) > 200

\* The upstream response was a 403 (a 404).
Was(status) == log[1].tr.kind = "response" /\ log[1].tr.status = status

\* C3: get_course_files re-raises every failure other than a 403 or 404
\* response, get_course_home_page every failure other than a 404 response.
C3_AdvisoryOnlyOn403Or404 ==
    /\ (Done("get_course_files") /\ ~log[1].outcome.ok /\ ~Was(403) /\ ~Was(404))
            => client.kind = "raise"
    /\ (Done("get_course_home_page") /\ ~log[1].outcome.ok /\ ~Was(404))
            => client.kind = "raise"

\* The due_at of an upstream assignment parses as ISO-8601 with an offset
\* and lies strictly after the instant.
StrictlyFuture(due_at, instant) ==
    /\ due_at.t = "str"
    /\ fromisoformat(ReplaceZ(due_at.s)).kind = "aware"
    /\ After(fromisoformat(ReplaceZ(due_at.s)).instant, instant)

\* The due_at parses as ISO-8601 and has no offset.
Naive(due_at) == due_at.t = "str" /\ fromisoformat(ReplaceZ(due_at.s)).kind = "naive"

\* The due_at is missing, null, empty or not parseable as ISO-8601.
Unusable(due_at) ==
    \/ due_at.t \in {"missing", "null", "num"}
    \/ due_at.t = "str" /\ fromisoformat(ReplaceZ(due_at.s)).kind = "ValueError"

\* The elements of a list
Range(list) == {list[i] : i \in 1..Len(list)}

\* The assignments upstream has handed to the fan-out so far, each with the
\* id of its course: log[k + 1] answers the request for courses[k].
Fetched ==
    UNION {{<<courses[k].id, a>> : a \in Range(log[k + 1].body)} : k \in 1..(Len(log) - 1)}

\* <<course id, assignment id, raw due_at>> of the upcoming assignments fetched
UpcomingFetched ==
    {<<f[1], f[2].id, f[2].due_at.s>> : f \in {g \in Fetched : StrictlyFuture(g[2].due_at, now)}}

Triples(records) ==
    {<<records[i].course_id, records[i].assignment_id, records[i].due_at>> :
        i \in 1..Len(records)}

\* records holds one record for each upcoming assignment fetched, and no other
ExactlyUpcoming(records) ==
    Triples(records) = UpcomingFetched /\ Len(records) = Cardinality(UpcomingFetched)

AscendingByDueText(records) ==
    \A i \in 1..(Len(records) - 1) : ~StrLess(records[i + 1].due_at, records[i].due_at)

\* C4: for any course list and any per-course assignment lists,
\* get_upcoming_assignments returns exactly one record for each assignment
\* due strictly after the current instant, ascending by the raw due_at text.
C4_ReturnsExactlyUpcoming ==
    (Done("get_upcoming_assignments") /\ log[1].outcome.ok)
        => /\ client.kind = "return"
           /\ ExactlyUpcoming(client.value)
           /\ AscendingByDueText(client.value)

NaiveFetched == \E f \in Fetched : Naive(f[2].due_at)

\* C5: in get_upcoming_assignments an assignment whose due_at is missing,
\* null, empty or unparseable is dropped without raising and changes nothing
\* about the other assignments: the operation raises exactly when a fetched
\* due_at is a naive datetime, and otherwise the records collected, and in
\* the end returned, are exactly those of the upcoming assignments fetched.
C5_UnusableDueDropped ==
    (call.op = "get_upcoming_assignments" /\ Len(log) >= 1 /\ log[1].outcome.ok)
        => /\ (pc = "done" /\ client.kind = "raise") <=> NaiveFetched
           /\ ~NaiveFetched => ExactlyUpcoming(acc)
           /\ (pc = "done" /\ ~NaiveFetched)
                => (client.kind = "return" /\ ExactlyUpcoming(client.value))

\* C5 witness: the operation has returned a record although an assignment
\* with an unusable due_at was fetched.
C5_Witness ==
    /\ Done("get_upcoming_assignments")
    /\ client.kind = "return"
    /\ client.value # <<>>
    /\ \E f \in Fetched : Unusable(f[2].due_at) /\ f[2].due_at.t = "str"
    /\ \E f \in Fetched : f[2].due_at.t = "null"

\* A per-course request of the fan-out has failed.
SubFetchFailed == \E k \in 2..Len(log) : ~log[k].outcome.ok

\* The grade records are those of the courses whose enrollments request
\* succeeded with an enrollment, in course order.
GradesOfOtherCourses(records) ==
    LET answered == {k \in 1..Len(courses) :
                        log[k + 1].outcome.ok /\ log[k + 1].body # <<>>}
    IN /\ Len(records) = Cardinality(answered)
       /\ {records[i].course_id : i \in 1..Len(records)} = {courses[k].id : k \in answered}

\* C6: a failed best-effort sub-fetch never aborts the enclosing operation:
\* when a per-course assignments request (get_upcoming_assignments), a
\* per-course enrollments request (get_all_grades) or the tabs request
\* (get_course) fails, the operation still returns, with that course skipped
\* and the results of every other course present, or with enabled_tabs = [].
C6_SubFetchFailureSkipped ==
    /\ (Done("get_upcoming_assignments") /\ log[1].outcome.ok /\ SubFetchFailed)
          => (client.kind = "return" /\ ExactlyUpcoming(client.value))
    /\ (Done("get_all_grades") /\ log[1].outcome.ok /\ SubFetchFailed)
          => (client.kind = "return" /\ GradesOfOtherCourses(client.value))
    /\ (Done("get_course") /\ log[1].outcome.ok /\ SubFetchFailed)
          => (client.kind = "return" /\ client.value.enabled_tabs = <<>>)

\* C7: get_course_files returns an object with files = [], count = 0 and a
\* suggestions list when the upstream payload is an empty array, and returns
\* (does not raise) a 'files disabled' object with files = [], count = 0 and
\* suggestions when the upstream response is a 403.
C7_FilesEmptyOrDisabled ==
    Done("get_course_files") =>
        /\ (log[1].outcome.ok /\ log[1].body = <<>>)
              => /\ client.kind = "return"
                 /\ client.value.files = <<>> /\ client.value.count = 0
                 /\ "suggestions" \in DOMAIN client.value
                 /\ client.value.suggestions # <<>>
                 /\ "error" \notin DOMAIN client.value
        /\ Was(403)
              => /\ client.kind = "return"
                 /\ client.value.files = <<>> /\ client.value.count = 0
                 /\ "suggestions" \in DOMAIN client.value
                 /\ client.value.suggestions # <<>>
                 /\ "error" \in DOMAIN client.value
                 /\ Contains(client.value.error, "disabled")

\* C7 witness: get_course_files has answered a 403 with a returned object.
C7_Witness == Done("get_course_files") /\ Was(403) /\ result.kind = "return"

\* C8: a tool returns exactly the value its client method returned, and when
\* the client method raises a client error it returns an error value of its
\* declared shape: an object with an error field, or a one-element list
\* holding an error object.
C8_FacadePassesOrShapes ==
    (pc = "done" /\ call.tool # "") =>
        /\ client.kind = "return" => result = client
        /\ (client.kind = "raise" /\ client.exc = "CanvasAPIError")
              => /\ result.kind = "return"
                 /\ IF call.tool \in ListTools
                    THEN result.value = <<[error |-> client.msg]>>
                    ELSE /\ "error" \in DOMAIN result.value
                         /\ result.value.error = client.msg

\* C8 witness: a list-returning tool whose client method raised a client error
C8_Witness ==
    /\ pc = "done" /\ call.tool \in ListTools
    /\ client.kind = "raise" /\ client.exc = "CanvasAPIError"

Graded(entry) == entry.workflow_state = Str("graded")

\* The due_at of an entry as the text it sorts by: null and absent are ""
DueText(entry) == IF entry.due_at.t = "str" THEN entry.due_at.s ELSE ""

\* C9: for a non-empty upstream submission list get_all_assignment_grades
\* returns one entry per submission, every graded entry before every other
\* entry, and within each of the two groups ascending by due_at text, an
\* entry with a null or empty due_at first.
C9_GradedFirstThenDue ==
    (Done("get_all_assignment_grades") /\ log[1].outcome.ok /\ log[1].body # <<>>) =>
        /\ client.kind = "return"
        /\ LET v == client.value IN
            /\ Len(v) = Len(log[1].body)
            /\ {v[i].assignment_id : i \in 1..Len(v)}
                 = {log[1].body[i].assignment_id : i \in 1..Len(v)}
            /\ \A i, j \in 1..Len(v) : i < j =>
                 /\ Graded(v[i]) \/ ~Graded(v[j])
                 /\ (Graded(v[i]) = Graded(v[j]))
                       => /\ ~StrLess(DueText(v[j]), DueText(v[i]))
                          /\ DueText(v[j]) = "" => DueText(v[i]) = ""

\* C9 witness: upstream listed an entry that is not graded before a graded
\* one, and the graded one has come out first.
C9_Witness ==
    /\ Done("get_all_assignment_grades") /\ client.kind = "return"
    /\ Len(log[1].body) = 2 /\ Len(client.value) = 2
    /\ log[1].body[1].workflow_state # Str("graded")
    /\ log[1].body[2].workflow_state = Str("graded")
    /\ client.value[1].assignment_id = log[1].body[2].assignment_id

\* The integers a context code ends with: course_42 gives 42.
TrailingIntegers(context_code) ==
    LET code == IF context_code.t = "str" THEN context_code.s ELSE "" IN
    {n \in 0..9 : LET tail == "_" \o IntToStr(n)
                  IN Len(code) >= Len(tail)
                     /\ SubSeq(code, Len(code) - Len(tail) + 1, Len(code)) = tail}

\* C10: for every event get_all_calendar_events returns, course_id is the
\* integer parsed from the event's context code, and course_name is the name
\* of the active course with that id, or 'Unknown Course' when no active
\* course has that id or the code has no parseable trailing integer.
C10_CourseOfEvent ==
    (Done("get_all_calendar_events") /\ Len(log) = 2 /\ log[2].outcome.ok
            /\ log[2].body # <<>>) =>
        /\ client.kind = "return"
        /\ Len(client.value) = Len(log[2].body)
        /\ \A i \in 1..Len(client.value) :
             LET got == client.value[i]
                 event == CHOOSE e \in Range(log[2].body) : e.id = got.id
                 ids == TrailingIntegers(event.context_code)
                 active == {c \in Range(log[1].body) : c.id \in ids}
             IN /\ \E e \in Range(log[2].body) : e.id = got.id
                /\ IF ids = {} THEN got.course_id = <<>>
                   ELSE got.course_id # <<>> /\ got.course_id[1] \in ids
                /\ IF active = {} THEN got.course_name = "Unknown Course"
                   ELSE \E c \in active : got.course_name = c.name

\* C10 witness: one returned event belongs to an active course and carries
\* its name, another has a code without an integer.
C10_Witness ==
    /\ Done("get_all_calendar_events") /\ client.kind = "return" /\ Len(log) = 2
    /\ \E i \in 1..Len(client.value) :
         /\ "course_id" \in DOMAIN client.value[i]
         /\ client.value[i].course_id = <<1>> /\ client.value[i].course_name = "Course 1"
    /\ \E i \in 1..Len(client.value) :
         /\ "course_id" \in DOMAIN client.value[i]
         /\ client.value[i].course_id = <<>> /\ client.value[i].course_name = "Unknown Course"

\* get_announcements has returned the records of a non-empty upstream list.
AnnouncementsReturned ==
    /\ Done("get_announcements") /\ log # <<>>
    /\ log[Len(log)].req.what = "announcements"
    /\ log[Len(log)].outcome.ok /\ log[Len(log)].body # <<>>

\* The posted_at of a record as the text it sorts by: null and absent are ""
PostedText(entry) == IF entry.posted_at.t = "str" THEN entry.posted_at.s ELSE ""

DescendingByPostedText(records) ==
    \A i, j \in 1..Len(records) :
        i < j => ~StrLess(PostedText(records[i]), PostedText(records[j]))

\* C11 as stated: get_announcements returns its records sorted descending by
\* posted_at string, and a record whose posted_at is null or empty sorts
\* first in the returned list.
C11_DescendingBlankFirst ==
    AnnouncementsReturned =>
        /\ client.kind = "return"
        /\ DescendingByPostedText(client.value)
        /\ \A i, j \in 1..Len(client.value) :
             (i < j /\ PostedText(client.value[j]) = "") => PostedText(client.value[i]) = ""

\* C11 amended: get_announcements returns one record per upstream
\* announcement, sorted descending by posted_at string with null or empty
\* taken as the smallest string, so such a record comes last.
C11_DescendingBlankLast ==
    AnnouncementsReturned =>
        /\ client.kind = "return"
        /\ Len(client.value) = Len(log[Len(log)].body)
        /\ {client.value[i].id : i \in 1..Len(client.value)}
             = {log[Len(log)].body[i].id : i \in 1..Len(client.value)}
        /\ DescendingByPostedText(client.value)
        /\ \A i, j \in 1..Len(client.value) :
             (i < j /\ PostedText(client.value[i]) = "") => PostedText(client.value[j]) = ""

\* C11 witness: upstream listed an announcement without posted_at before a
\* dated one, and the dated one has come out first.
C11_Witness ==
    /\ AnnouncementsReturned /\ client.kind = "return" /\ Len(client.value) = 2
    /\ log[Len(log)].body[1].posted_at = Null
    /\ log[Len(log)].body[2].posted_at.t = "str" /\ log[Len(log)].body[2].posted_at.s # ""
    /\ client.value[1].id = log[Len(log)].body[2].id
    /\ PostedText(client.value[2]) = ""

\* C12: for every supplied course id get_announcements queries exactly the
\* one context code course_<id> and does not fetch the course list; only when
\* the course id is omitted does it fetch the active courses and query the
\* context codes of all of them.
C12_AnnouncementScope ==
    (call.op = "get_announcements" /\ log # <<>>) =>
        IF call.has_course
        THEN /\ Len(log) = 1
             /\ log[1].req.what = "announcements"
             /\ log[1].req.params.context_codes = <<"course_" \o IntToStr(call.course_id)>>
        ELSE /\ log[1].req.what = "courses"
             /\ Len(log) = 2 =>
                  /\ log[2].req.what = "announcements"
                  /\ log[2].req.params.context_codes
                       = [i \in 1..Len(log[1].body) |->
                             "course_" \o IntToStr(log[1].body[i].id)]

\* get_discussion_entries has ended on a 200 response with a non-empty list.
EntriesReturned ==
    Done("get_discussion_entries") /\ log[1].outcome.ok /\ log[1].body # <<>>

\* C13: for every requested limit get_discussion_entries asks upstream for a
\* page size of min(limit, 50), and when upstream returns a non-empty list it
\* returns the first entries of that list in upstream order, never more than
\* limit of them.
C13_PageSizeAndPrefix ==
    /\ (call.op = "get_discussion_entries" /\ inflight # <<>>)
          => inflight[1].params.per_page
               = <<IF call.limit < 50 THEN call.limit ELSE 50>>
    /\ EntriesReturned
          => /\ client.kind = "return"
             /\ Len(client.value) <= Len(log[1].body)
             /\ \A i \in 1..Len(client.value) : client.value[i].id = log[1].body[i].id
             /\ Len(client.value) <= call.limit

\* C14: for every limit the caller passes (above 50, zero and negative
\* included) and every entry list upstream returns, get_discussion_entries
\* returns at most 50 posts.
C14_AtMostFiftyPosts ==
    (Done("get_discussion_entries") /\ result.kind = "return") => Len(result.value) <= 50

\* The instant a returned record is due at
DueInstant(record) == fromisoformat(ReplaceZ(record.due_at)).instant

\* C15: get_upcoming_deadlines returns its records earliest-first: of any two
\* returned records the one whose due instant is earlier in time comes first,
\* also when their due_at strings carry different UTC offsets or notations.
C15_EarliestFirst ==
    (Done("get_upcoming_assignments") /\ call.tool = "get_upcoming_deadlines"
            /\ result.kind = "return" /\ log[1].outcome.ok) =>
        \A i, j \in 1..Len(result.value) :
            i < j => ~After(DueInstant(result.value[i]), DueInstant(result.value[j]))

\* The most requests one operation sends: the course list and one request
\* per course for the fan-outs, two for get_course and for an unscoped
\* listing, one for every other operation.
MostRequests ==
    IF call.op \in {"get_upcoming_assignments", "get_all_grades"} THEN 1 + Len(courses)
    ELSE IF call.op \in {"get_course", "get_all_calendar_events", "get_announcements"} THEN 2
    ELSE 1

\* C16: no request is retried: every call of the request primitive is one
\* GET, a failure of it is raised to its caller, and within one operation a
\* request that failed is never issued again.
C16_NoRetry ==
    /\ Len(inflight) <= 1
    /\ Len(log) + Len(inflight) <= MostRequests
    /\ \A i \in 1..Len(log) :
         /\ log[i].req.method = "GET"
         /\ log[i].tr # Ok => (~log[i].outcome.ok /\ log[i].outcome.msg # "")
         /\ ~log[i].outcome.ok =>
              /\ \A j \in (i + 1)..Len(log) : log[j].req # log[i].req
              /\ inflight # <<>> => inflight[1] # log[i].req

\* C16 witness: a fan-out has gone on to the next course after a failed
\* request and has ended.
C16_Witness ==
    /\ Done("get_upcoming_assignments") /\ Len(log) = 3
    /\ ~log[2].outcome.ok /\ log[3].outcome.ok

\* The repetition of a kept call has ended.
Repeated == pc = "done" /\ first # <<>>

SameOutcome(a, b) ==
    a.kind = b.kind /\ a.exc = b.exc /\ a.msg = b.msg /\ a.value = b.value

\* The client methods that read datetime.now
ClockReaders ==
    {"get_upcoming_assignments", "get_calendar_events", "get_all_calendar_events",
     "get_announcements"}

C18_ConfiguredOrExited ==
    /\ (pc # "boot" /\ (env.base_url = "" \/ env.token = ""))
          => /\ pc = "exited" /\ ~canvas.exists
             /\ call = NoCall /\ inflight = <<>> /\ log = <<>>
    /\ pc = "exited" => (env.base_url = "" \/ env.token = "")
    /\ canvas.exists => (canvas.base_url # "" /\ canvas.token # "")

\* The hint the table of get_course holds for a view, "" for a view it does
\* not hold.
TableHint(view) ==
    IF view = "modules"
    THEN "This course uses Modules - use get_course_modules to browse weekly content."
    ELSE IF view = "wiki"
    THEN "This course uses a home page - use get_course_home_page for main content."
    ELSE IF view = "syllabus"
    THEN "This course is syllabus-focused - use get_course_syllabus and get_assignments."
    ELSE IF view = "assignments"
    THEN "This course is assignment-centric - use get_assignments."
    ELSE IF view = "feed"
    THEN "This course uses an activity feed - check get_announcements for updates."
    ELSE ""

\* C19: get_course computes navigation_hint as a total function of
\* default_view: modules, wiki, syllabus, assignments and feed each yield
\* their own fixed hint, and every other value, a null value and a missing
\* field all yield the one generic fallback hint.
C19_NavigationHintTotal ==
    (Done("get_course") /\ log[1].outcome.ok) =>
        /\ client.kind = "return"
        /\ "navigation_hint" \in DOMAIN client.value
        /\ LET view == log[1].body.default_view
               own == IF view.t = "str" THEN TableHint(view.s) ELSE ""
           IN client.value.navigation_hint
                = (IF own # "" THEN own
                   ELSE "Try get_course_modules or get_course_home_page to find content.")

\* C19 witness: get_course has returned the fallback hint for a course whose
\* default_view is null.
C19_Witness ==
    /\ Done("get_course") /\ log[1].outcome.ok /\ client.kind = "return"
    /\ log[1].body.default_view = Null
    /\ client.value.navigation_hint
         = "Try get_course_modules or get_course_home_page to find content."

\* The three advisory texts of get_course_grades
GradesAdvisory(case, course_id) ==
    IF case = "empty"
    THEN "No student enrollment found. You may not be a student in this course."
    ELSE IF case = "403" THEN "Grades are hidden or restricted for this course."
    ELSE "Course " \o IntToStr(course_id) \o " not found."

\* The client returned, and the tool passed on, the advisory of the case.
AdvisoryReturned(case) ==
    /\ client.kind = "return"
    /\ DOMAIN client.value = {"course_id", "error"}
    /\ client.value.course_id = call.course_id
    /\ client.value.error = GradesAdvisory(case, call.course_id)
    /\ result = client

\* C20: get_course_grades returns an advisory error object carrying the
\* course id, and does not raise, when upstream returns an empty enrollment
\* list, responds 403 or responds 404; the three messages are distinct.
C20_GradesAdvisories ==
    Done("get_course_grades") =>
        /\ (log[1].outcome.ok /\ log[1].body = <<>>) => AdvisoryReturned("empty")
        /\ Was(403) => AdvisoryReturned("403")
        /\ Was(404) => AdvisoryReturned("404")
        /\ \A a, b \in {"empty", "403", "404"} :
             a # b => GradesAdvisory(a, call.course_id) # GradesAdvisory(b, call.course_id)

\* C20 witness: get_course_grades has answered a 404 with its advisory.
C20_Witness ==
    /\ Done("get_course_grades") /\ Was(404) /\ result.kind = "return"
    /\ result.value.course_id = 404

\* C21: get_course_syllabus always succeeds structurally: for every outcome
\* of its upstream request it returns a syllabus-shaped object in which
\* has_syllabus is true exactly when the syllabus body is non-empty and
\* message is null exactly when has_syllabus is true.
C21_SyllabusAlwaysShaped ==
    Done("get_course_syllabus") =>
        /\ client.kind = "return"
        /\ {"has_syllabus", "message", "syllabus_body"} \subseteq DOMAIN client.value
        /\ {"has_syllabus", "message", "syllabus_body"} \subseteq DOMAIN result.value
        /\ client.value.has_syllabus
             <=> (client.value.syllabus_body.t = "str" /\ client.value.syllabus_body.s # "")
        /\ (client.value.message = Null) <=> client.value.has_syllabus

\* The tools that delegate to a client operation.
Exposing(op) == {tool \in Tools : ClientMethod(tool) = op}

\* C22: every client operation is exposed by exactly one facade operation
\* that delegates to it, and every facade operation delegates to exactly one
\* client operation: whichever client operation runs (get_all_assignment_grades
\* included), exactly one tool reaches it, and a tool runs the one operation
\* it delegates to.
C22_OneToolPerOperation ==
    call.op # "" =>
        /\ Cardinality(Exposing(call.op)) = 1
        /\ call.tool # "" => (call.tool \in Tools /\ call.op = ClientMethod(call.tool))

\* The requests an operation has sent so far.
Issued == Len(log) + Len(inflight)

\* C23: with every outbound request eventually ended, every invoked operation
\* eventually ends; get_upcoming_assignments and get_all_grades send exactly
\* 1 + (number of active courses) requests when the course-list request
\* succeeds, get_course sends exactly 2 when its first request succeeds, and
\* no operation sends more requests than its course list calls for.
C23_EndsAfterExactRequests ==
    /\ (pc = "waiting") ~> (pc = "done")
    /\ [](Issued <= MostRequests)
    /\ []((pc = "done" /\ Len(log) > 0 /\ log[1].outcome.ok) =>
            /\ call.op \in {"get_upcoming_assignments", "get_all_grades"}
                 => Len(log) = 1 + Len(courses)
            /\ call.op = "get_course" => Len(log) = 2)

\* The request of a fan-out for one course.
CourseRequest(course_id) ==
    IF call.op = "get_upcoming_assignments" THEN AssignmentsRequest(course_id)
    ELSE EnrollmentsRequest(course_id)

\* C24: at most one outbound request is outstanding at any time; in an
\* aggregating operation the requests after the course list are those of the
\* courses in course-list order, and the request of the next course is sent
\* only when those of all courses before it have ended, each in a response
\* or an error.
C24_OneRequestAtATime ==
    /\ Len(inflight) <= 1
    /\ (call.op \in {"get_upcoming_assignments", "get_all_grades"} /\ Len(log) > 0) =>
         /\ log[1].req = CoursesRequest
         /\ Len(log) - 1 <= Len(courses)
         /\ \A k \in 2..Len(log) :
              /\ log[k].req = CourseRequest(courses[k - 1].id)
              /\ log[k].tr \in Failures \cup {Ok}
         /\ inflight # <<>> =>
              /\ Len(log) <= Len(courses)
              /\ inflight[1] = CourseRequest(courses[Len(log)].id)

\* C24 witness: the request of the second course is outstanding after the
\* request of the first course ended in an error.
C24_Witness ==
    /\ call.op = "get_all_grades" /\ Len(courses) = 2 /\ Len(log) = 2
    /\ ~log[2].outcome.ok
    /\ inflight = <<EnrollmentsRequest(courses[2].id)>>

\* C25: no operation, successful or failing, changes the client's
\* configuration: once constructed, the client's base URL, token and headers
\* are those set at construction from the environment, and every outbound
\* request is a GET to that base URL carrying that Authorization bearer
\* header.
C25_ConfigurationFixed ==
    canvas.exists =>
        /\ canvas = NewClient(env.base_url, env.token)
        /\ \A i \in 1..Len(log) :
             /\ log[i].req.method = "GET"
             /\ log[i].req.authorization = "Bearer " \o env.token
             /\ Prefix(log[i].req.url, Len(canvas.base_url)) = RStrip(env.base_url)
        /\ \A i \in 1..Len(inflight) :
             /\ inflight[i].method = "GET"
             /\ inflight[i].authorization = "Bearer " \o env.token
             /\ Prefix(inflight[i].url, Len(canvas.base_url)) = RStrip(env.base_url)

\* C25 witness: a request is outstanding in the repetition of a call that
\* failed the first time.
C25_Witness ==
    /\ first # <<>> /\ first[1].result.kind = "return" /\ first[1].log # <<>>
    /\ ~first[1].log[1].outcome.ok
    /\ inflight # <<>>

\* C26: get_upcoming_assignments, and get_upcoming_deadlines over it, return
\* a list and never raise whatever the due_at strings of the fetched
\* assignments are, one that parses but has no timezone offset included:
\* once the course list is fetched, the client method returns and the tool
\* returns.
C26_UpcomingNeverRaisesOnDueAt ==
    (Done("get_upcoming_assignments") /\ log[1].outcome.ok) =>
        /\ client.kind = "return"
        /\ call.tool = "get_upcoming_deadlines" => result.kind = "return"

\* The context code has the form course_<id>.
CourseCode(context_code) ==
    /\ context_code.t = "str"
    /\ Prefix(context_code.s, 7) = "course_"
    /\ TrailingIntegers(context_code) # {}

\* C27: get_all_calendar_events and get_announcements attribute an item to a
\* course only when its context code has the form course_<id>: the record of
\* an item with any other code (user_1, group_1) names no course, 'Unknown
\* Course' for an event and null for an announcement, also when the trailing
\* number is the id of an active course.
C27_OnlyCourseCodesAttributed ==
    /\ (Done("get_all_calendar_events") /\ Len(log) = 2 /\ log[2].outcome.ok
            /\ log[2].body # <<>>) =>
         \A i \in 1..Len(client.value) :
             \A e \in Range(log[2].body) :
                 (e.id = client.value[i].id /\ ~CourseCode(e.context_code))
                     => client.value[i].course_name = "Unknown Course"
    /\ AnnouncementsReturned =>
         \A i \in 1..Len(client.value) :
             \A a \in Range(log[Len(log)].body) :
                 (a.id = client.value[i].id /\ ~CourseCode(a.context_code))
                     => client.value[i].course_name = <<>>

\* The ids of a list of records, in the list's order.
Ids(records) == [k \in 1..Len(records) |-> records[k].id]

\* C28: every payload returned for course files and course modules, by the
\* client method or by the tool (data, empty, 403/404 advisory, the tool's
\* error object), has count equal to the length of its files or modules
\* list; every returned module has items_count equal to the length of its
\* items list, and its items are the upstream items in upstream order.
C28_CountsMatchLists ==
    /\ Done("get_course_files") =>
         /\ result.kind = "return"
         /\ result.value.count = Len(result.value.files)
         /\ client.kind = "return" => client.value.count = Len(client.value.files)
    /\ Done("get_course_modules") =>
         /\ result.kind = "return"
         /\ result.value.count = Len(result.value.modules)
         /\ client.kind = "return" => client.value.count = Len(client.value.modules)
         /\ \A i \in 1..Len(result.value.modules) :
              LET module == result.value.modules[i] IN
              /\ module.items_count = Len(module.items)
              /\ log[1].outcome.ok
              /\ Len(log[1].body) = Len(result.value.modules)
              /\ Ids(module.items) = Ids(log[1].body[i].items.list)

\* C28 witness: get_course_modules has returned two modules, the second with
\* two items that upstream does not list by position.
C28_Witness ==
    /\ Done("get_course_modules") /\ result.kind = "return"
    /\ Len(result.value.modules) = 2
    /\ result.value.modules[2].items_count = 2
    /\ result.value.modules[2].items[1].position > result.value.modules[2].items[2].position

=============================================================================
